---- MODULE Spec2Model ----
(***************************************************************************)
(* RepoSearch (src/13.py): the parallel scanning engine                    *)
(* search_in_files_parallel / worker_search_file and the application       *)
(* handlers that start, cancel and clear a scan.                           *)
(*                                                                         *)
(* Several specifications share the module:                                *)
(*   Spec / ScanSpec  the application and its concurrent scan (13.py);     *)
(*   WorkerSpec       one uninterrupted call of worker_search_file on any  *)
(*                    enumerated file and argument list (13.py);           *)
(*   SeqSpec          the line loop of the sequential search_in_files of   *)
(*                    Appsec_Repo_Search.py and NewUiFix.py on one file;   *)
(*   FilesSpec        the same search_in_files over a list of files, with  *)
(*                    its stop and pause checks and the cancel handlers;   *)
(*   ListSpec         iter_files and the start of the scan (13.py);        *)
(*   ProxySpec        the VarProxy of 13.py and of Appsec_Repo_Search.py.  *)
(*                                                                         *)
(* Text is modelled as sequences of one-character strings, so that case    *)
(* normalisation, stripping and containment are computed, not assumed.     *)
(*                                                                         *)
(* Granularity.  A worker or the coordinator reads the stop event at a     *)
(* checkpoint and then works on thread-local data only (the worker's       *)
(* `results`, the coordinator's `results`, `scanned`, `files_with_match`), *)
(* so a checkpoint and the local work it guards form one step.  The steps  *)
(* of different threads interleave freely.                                 *)
(***************************************************************************)
EXTENDS Integers, Sequences, FiniteSets, TLC

(* ------------------------------ bounds -------------------------------- *)
\* Number of Run requests (scan threads) in one behaviour.
MaxScans == 2
\* Number of files under the scanned root.
NumFiles == 2
\* Longest file (in lines) a single worker call is enumerated over.
MaxFileLines == 2
\* Longest file list a cancellable sequential scan is enumerated over.
MaxSeqFiles == 2
\* Most files under a listed root; most suffixes in an extension filter.
MaxWalk == 2
MaxSuffixes == 2
\* Most calls of VarProxy.set in one behaviour; the last clock tick.
MaxSets == 3
MaxTime == 5

(* ------------------------- program constants -------------------------- *)
\* maxworkers = max(2, min(32, os.cpu_count() or 4)): the smallest pool.
maxworkers == 2
MAX_HISTORY == 40
\* interval_ms = 120, counted in clock ticks of 60 ms.
interval == 2

(* ------------------------------ fixture ------------------------------- *)
\* The scanned tree: every file is a record of the lines readlines()
\* returns (line terminators included).  Files come in three kinds: two
\* matching lines, one matching line that open() may fail to deliver, one
\* matching line behind other text.
FileAt(f) ==
  CASE f % 3 = 1 -> [lines |-> << <<"f","o","\n">>, <<"a","F","o">> >>]
    [] f % 3 = 2 -> [lines |-> << <<"f","o","\n">> >>]
    [] OTHER     -> [lines |-> << <<"x"," ","F","o","\n">> >>]

Tree == [f \in 1..NumFiles |-> FileAt(f)]

\* The sets of files whose open() or decoding can raise.
UnreadableChoices == SUBSET {f \in 1..NumFiles : f % 3 = 2}

\* The keyword typed in the keyword entry.
Keyword == <<"f","o">>

\* Values of the safeguard entry a Run may read.
SafeguardValues == {0, 1, 5}

\* The keyword and the context keyword of a single worker call.
Foo == <<"f","o","o">>
Bar == <<"b","a","r">>

\* The line texts the enumerated files are made of.
WorkerLineTexts ==
  { <<"f","o","o","\n">>,
    <<" "," ","f","o","o"," "," ","\n">>,
    <<"f","o","o","b","a","r","\n">>,
    <<"x"," ","="," ","1"," "," ","#"," ","f","o","o","\n">>,
    <<"#"," ","f","o","o","\n">>,
    <<"b","a","r","\n">>,
    <<"F","o","o","\n">> }

RECURSIVE SeqsUpTo(_, _)
\* The non-empty sequences over S of length at most n.
SeqsUpTo(S, n) ==
  IF n = 0 THEN {}
  ELSE LET shorter == SeqsUpTo(S, n - 1)
       IN  {<<x>> : x \in S} \cup shorter
             \cup {sq \o <<x>> : sq \in shorter, x \in S}

\* A file of ten lines with the keyword on line 5; line 4 is either code
\* or a pure comment.
TenLines(line4) ==
  << <<"l","1","\n">>, <<"l","2","\n">>, <<"l","3","\n">>, line4, <<"f","o","o","\n">>,
     <<"l","6","\n">>, <<"l","7","\n">>, <<"l","8","\n">>, <<"l","9","\n">>, <<"l","1","0">> >>

Line4Code == <<"l","4","\n">>
Line4Comment == <<"#"," ","l","4","\n">>

\* The files a single worker call is enumerated over.
WorkerFiles ==
  SeqsUpTo(WorkerLineTexts, MaxFileLines)
    \cup {TenLines(Line4Code), TenLines(Line4Comment)}

\* (bufferbefore, bufferafter) of a single worker call.
WorkerBuffers == {<<0, 0>>, <<2, 1>>, <<1, 2>>, <<2, 2>>}

(* ------------------------------ strings ------------------------------- *)
Lower(c) ==
  CASE c = "F" -> "f"
    [] c = "O" -> "o"
    [] c = "A" -> "a"
    [] c = "B" -> "b"
    [] OTHER   -> c

IsSpace(c) == c \in {" ", "\n", "\t"}

\* def norm(s): return s if casesensitive else s.lower()
norm(s, casesensitive) ==
  IF casesensitive THEN s ELSE [i \in 1..Len(s) |-> Lower(s[i])]

RECURSIVE rstrip_nl(_)
\* raw.rstrip("\n")
rstrip_nl(s) ==
  IF Len(s) > 0 /\ s[Len(s)] = "\n" THEN rstrip_nl(SubSeq(s, 1, Len(s) - 1)) ELSE s

RECURSIVE lstrip(_)
lstrip(s) ==
  IF Len(s) > 0 /\ IsSpace(s[1]) THEN lstrip(Tail(s)) ELSE s

RECURSIVE rstrip(_)
rstrip(s) ==
  IF Len(s) > 0 /\ IsSpace(s[Len(s)]) THEN rstrip(SubSeq(s, 1, Len(s) - 1)) ELSE s

startswith(s, p) == Len(p) <= Len(s) /\ SubSeq(s, 1, Len(p)) = p

\* key in hay (substring containment)
Contains(hay, key) ==
  \E i \in 0..(Len(hay) - Len(key)) : SubSeq(hay, i + 1, i + Len(key)) = key

RECURSIVE split(_)
\* str.split(): the maximal runs of non-whitespace characters
split(s) ==
  LET t == lstrip(s) IN
  IF Len(t) = 0 THEN << >>
  ELSE LET ends == {i \in 1..Len(t) : i = Len(t) \/ IsSpace(t[i + 1])}
           e    == CHOOSE i \in ends : \A j \in ends : i <= j
       IN  <<SubSeq(t, 1, e)>> \o split(SubSeq(t, e + 1, Len(t)))

InSeq(x, sq) == \E i \in 1..Len(sq) : sq[i] = x

(* ------------------------- worker_search_file ------------------------- *)
is_comment_line_text(hay) ==
  LET t == lstrip(hay) IN
     \/ startswith(t, <<"/","/">>) \/ startswith(t, <<"#">>)
     \/ startswith(t, <<"-","-">>) \/ startswith(t, <<"/","*">>)
     \/ startswith(t, <<"*">>)     \/ startswith(t, <<"*","/">>)

VARIABLE unreadable  \* the files whose open() raises in this behaviour

\* read_text_lines: the lines of the file, [] when open/decoding raises
read_text_lines(f) == IF f \in unreadable THEN << >> ELSE Tree[f].lines

\* The keyword test of one iteration of the line loop (`found`): line idx
\* of `lines` is not skipped as a comment and matches under request rq.
LineFound(lines, idx, rq) ==
  LET line == rstrip_nl(lines[idx])
      hay  == norm(line, rq.casesensitive)
      key  == norm(rq.keyword, rq.casesensitive)
  IN  /\ ~(rq.ignorecomments = "Yes" /\ is_comment_line_text(hay))
      /\ IF rq.exactmatch THEN hay = key
         ELSE IF rq.pertoken THEN InSeq(key, split(hay))
         ELSE Contains(hay, key)

\* A line the window loops pass over without taking it.
WindowSkips(line, rq) ==
  rq.ignorecomments = "Yes" /\ is_comment_line_text(norm(line, rq.casesensitive))

RECURSIVE BeforeIdx_allslots(_, _, _, _)
\* Variant: a comment line consumes a slot of the window.
BeforeIdx_allslots(lines, j, taken_before, rq) ==
  IF j >= 1 /\ taken_before < rq.bufferbefore
  THEN IF WindowSkips(lines[j], rq)
       THEN BeforeIdx_allslots(lines, j - 1, taken_before + 1, rq)
       ELSE BeforeIdx_allslots(lines, j - 1, taken_before + 1, rq) \o <<j>>
  ELSE << >>

RECURSIVE BeforeIdx(_, _, _, _)
\* while j >= 0 and taken_before < before_n: the numbers (from 1) of the
\* lines put in front of the window, walking upwards from line j.
BeforeIdx(lines, j, taken_before, rq) ==
  IF j >= 1 /\ taken_before < rq.bufferbefore
  THEN IF WindowSkips(lines[j], rq)
       THEN BeforeIdx(lines, j - 1, taken_before, rq)
       ELSE BeforeIdx(lines, j - 1, taken_before + 1, rq) \o <<j>>
  ELSE << >>

RECURSIVE AfterIdx(_, _, _, _)
\* while k < len(lines) and taken_after < after_n
AfterIdx(lines, k, taken_after, rq) ==
  IF k <= Len(lines) /\ taken_after < rq.bufferafter
  THEN IF WindowSkips(lines[k], rq)
       THEN AfterIdx(lines, k + 1, taken_after, rq)
       ELSE <<k>> \o AfterIdx(lines, k + 1, taken_after + 1, rq)
  ELSE << >>

\* The line numbers of window_lines for a match on line idx.
WindowIdx(lines, idx, rq) ==
  BeforeIdx(lines, idx - 1, 0, rq) \o <<idx>> \o AfterIdx(lines, idx + 1, 0, rq)

RECURSIVE Join(_)
\* "".join(window_lines)
Join(sq) == IF Len(sq) = 0 THEN << >> ELSE Head(sq) \o Join(Tail(sq))

window(lines, idx, rq) ==
  LET w == WindowIdx(lines, idx, rq)
  IN  Join([i \in 1..Len(w) |-> lines[w[i]]])

strip(s) == lstrip(rstrip(s))

\* Variant: the context keyword is not consulted.
context_found_always(win, rq) == TRUE

\* context_found: the window holds the context keyword, if there is one.
context_found(win, rq) ==
  LET ctx == norm(rq.contextkw, rq.casesensitive)
      window_proc == norm(win, rq.casesensitive)
  IN  IF Len(rq.contextkw) = 0 THEN TRUE
      ELSE IF rq.exactmatch THEN strip(window_proc) = ctx
      ELSE IF rq.pertoken THEN InSeq(ctx, split(window_proc))
      ELSE Contains(window_proc, ctx)

\* Variant: every record carries line number 1.
LineRecords_firstline(f, lines, idx, rq) ==
  IF ~LineFound(lines, idx, rq) THEN << >>
  ELSE << <<f, 1, rstrip_nl(lines[idx]), << >> >> >>

\* The records a worker appends when it processes line idx of file f:
\* (fpath, idx, line, codeblock).
LineRecords(f, lines, idx, rq) ==
  IF ~LineFound(lines, idx, rq) THEN << >>
  ELSE IF ~rq.subscan_enabled
       THEN << <<f, idx, rstrip_nl(lines[idx]), << >> >> >>
  ELSE IF ~context_found(window(lines, idx, rq), rq) THEN << >>
  ELSE << <<f, idx, rstrip_nl(lines[idx]), rstrip(window(lines, idx, rq))>> >>

RECURSIVE FileRecords(_, _, _, _)
\* The worker's `results` after the first n lines of the file.
FileRecords(f, lines, n, rq) ==
  IF n = 0 THEN << >>
  ELSE FileRecords(f, lines, n - 1, rq) \o LineRecords(f, lines, n, rq)

(* -------- search_in_files (Appsec_Repo_Search.py, NewUiFix.py) ------- *)
\* str.find(tok, from): the first position (counted from 1) at or after
\* `from` where tok occurs in s; 0 when there is none.
find(s, tok, from) ==
  LET hits == {i \in from..(Len(s) - Len(tok) + 1) :
                 SubSeq(s, i, i + Len(tok) - 1) = tok}
  IN  IF hits = {} THEN 0 ELSE CHOOSE i \in hits : \A j \in hits : i <= j

SINGLE_LINE_MARKERS(ext) ==
  CASE ext = ".py"   -> {<<"#">>}
    [] ext = ".java" -> {<<"/","/">>}
    [] OTHER         -> {}

MULTI_COMMENT_TOKENS(ext) ==
  CASE ext = ".py"   -> << << <<"\"","\"","\"">>, <<"\"","\"","\"">> >>, << <<"'","'","'">>, <<"'","'","'">> >> >>
    [] ext = ".java" -> << << <<"/","*">>, <<"*","/">> >> >>
    [] OTHER         -> << >>

\* str.endswith
endswith(s, suffix) ==
  Len(suffix) <= Len(s) /\ SubSeq(s, Len(s) - Len(suffix) + 1, Len(s)) = suffix

RECURSIVE first_unquoted_marker_scan(_, _, _, _, _, _)
\* The while loop of _first_unquoted_marker_index from position i on.
first_unquoted_marker_scan(line, markers, i, in_squote, in_dquote, escape) ==
  IF i > Len(line) THEN 0
  ELSE LET ch == line[i] IN
    IF escape
      THEN first_unquoted_marker_scan(line, markers, i + 1, in_squote, in_dquote, FALSE)
    ELSE IF ch = "\\"
      THEN first_unquoted_marker_scan(line, markers, i + 1, in_squote, in_dquote, TRUE)
    ELSE IF ~in_dquote /\ ch = "'" /\ ~in_squote
      THEN first_unquoted_marker_scan(line, markers, i + 1, TRUE, in_dquote, FALSE)
    ELSE IF in_squote /\ ch = "'"
      THEN first_unquoted_marker_scan(line, markers, i + 1, FALSE, in_dquote, FALSE)
    ELSE IF ~in_squote /\ ch = "\"" /\ ~in_dquote
      THEN first_unquoted_marker_scan(line, markers, i + 1, in_squote, TRUE, FALSE)
    ELSE IF in_dquote /\ ch = "\""
      THEN first_unquoted_marker_scan(line, markers, i + 1, in_squote, FALSE, FALSE)
    ELSE IF /\ ~in_squote /\ ~in_dquote
            /\ \E m \in markers : startswith(SubSeq(line, i, Len(line)), m)
      THEN i
    ELSE first_unquoted_marker_scan(line, markers, i + 1, in_squote, in_dquote, FALSE)

\* _first_unquoted_marker_index: the position (from 1) of the first marker
\* outside single and double quotes; 0 for the code's -1.
first_unquoted_marker_index(line, markers) ==
  first_unquoted_marker_scan(line, markers, 1, FALSE, FALSE, FALSE)

RECURSIVE strip_multi(_, _)
\* The `while True` loop over multi_tokens: closed blocks are cut out; a
\* block left open cuts the rest of the line and opens the multi-line state.
strip_multi(line, toks) ==
  LET starts == {k \in 1..Len(toks) : find(line, toks[k][1], 1) # 0}
  IN  IF starts = {} THEN [line |-> line, inside |-> FALSE, end |-> << >>]
      ELSE LET k == CHOOSE a \in starts : \A b \in starts :
                      \/ find(line, toks[a][1], 1) < find(line, toks[b][1], 1)
                      \/ /\ find(line, toks[a][1], 1) = find(line, toks[b][1], 1)
                         /\ a <= b
               earliest_start == find(line, toks[k][1], 1)
               chosen_end == toks[k][2]
               e_idx == find(line, chosen_end, earliest_start + Len(toks[k][1]))
           IN  IF e_idx # 0
               THEN strip_multi(SubSeq(line, 1, earliest_start - 1)
                                  \o SubSeq(line, e_idx + Len(chosen_end), Len(line)),
                                toks)
               ELSE [line |-> SubSeq(line, 1, earliest_start - 1),
                     inside |-> TRUE, end |-> chosen_end]

\* "if mrk_idx == 0: continue".  Appsec_Repo_Search.py looks at the cut
\* line, NewUiFix.py at the cut line after strip().
EntireComment(app, text, markers) ==
  /\ markers # {}
  /\ first_unquoted_marker_index(
        IF app = "NewUiFix" THEN strip(text) ELSE text, markers) = 1

\* The comment handling of one line: what is left of the line to search
\* (skip: the loop continues without searching) and the multi-line state
\* after the line.
ProcessLine(app, ext, raw_line, inside_multiline, current_multi_end, args) ==
  LET original_line == rstrip_nl(raw_line)
      end_idx == find(original_line, current_multi_end, 1)
      closed  == IF inside_multiline
                 THEN SubSeq(original_line, end_idx + Len(current_multi_end),
                             Len(original_line))
                 ELSE original_line
      m  == IF Len(MULTI_COMMENT_TOKENS(ext)) > 0
            THEN strip_multi(closed, MULTI_COMMENT_TOKENS(ext))
            ELSE [line |-> closed, inside |-> FALSE, end |-> << >>]
      marker_idx == IF SINGLE_LINE_MARKERS(ext) # {}
                    THEN first_unquoted_marker_index(m.line, SINGLE_LINE_MARKERS(ext))
                    ELSE 0
      cut == IF marker_idx # 0 THEN SubSeq(m.line, 1, marker_idx - 1) ELSE m.line
  IN  IF ~args.ignore_comments
      THEN [skip |-> FALSE, text |-> original_line,
            inside |-> inside_multiline, end |-> current_multi_end]
      ELSE IF inside_multiline /\ end_idx = 0
      THEN [skip |-> TRUE, text |-> << >>,
            inside |-> inside_multiline, end |-> current_multi_end]
      ELSE [skip |-> \/ Len(strip(cut)) = 0
                     \/ EntireComment(app, cut, SINGLE_LINE_MARKERS(ext)),
            text |-> cut, inside |-> m.inside, end |-> m.end]

\* \W: every character that is not a letter, a digit or the underscore.
NonWordChars ==
  {" ", "\n", "\t", "=", ";", "#", "/", "*", "\"", "'", "+", "-", "\\",
   "<", ">", "!", "%", ".", ",", "(", ")"}

IsWord(c) == c \notin NonWordChars

\* Variant: tokens are separated by white space only.
re_split_onspace(s) == split(s)

RECURSIVE re_split(_)
\* re.compile(r"\W+").split(s), empty strings at the ends included
re_split(s) ==
  LET nonword == {i \in 1..Len(s) : ~IsWord(s[i])}
  IN  IF nonword = {} THEN <<s>>
      ELSE LET a == CHOOSE i \in nonword : \A j \in nonword : i <= j
               rest == {i \in a..Len(s) : IsWord(s[i])}
           IN  IF rest = {} THEN <<SubSeq(s, 1, a - 1), << >> >>
               ELSE <<SubSeq(s, 1, a - 1)>>
                      \o re_split(SubSeq(s, CHOOSE i \in rest : \A j \in rest : i <= j,
                                         Len(s)))

\* match_found for the text left of a line
MatchFound(text, args) ==
  LET search_line    == norm(text, args.case_sensitive)
      search_keyword == norm(args.keyword, args.case_sensitive)
  IN  IF args.per_token THEN InSeq(search_keyword, re_split(search_line))
      ELSE IF args.exact_match THEN strip(search_line) = search_keyword
      ELSE Contains(search_line, search_keyword)

\* The line texts the files of a sequential scan are made of.
SeqLineTexts ==
  { <<"x"," ","="," ","1"," "," ","#"," ","f","o","o","\n">>,
    <<"s"," ","="," ","\"","a"," ","#"," ","b","\""," ","+"," ","f","o","o","\n">>,
    <<"x","=","f","o","o",";","b","a","r","\n">>,
    <<"\"","/","*","\""," ","/","/"," ","*","/"," ","f","o","o","\n">>,
    <<"x"," ","="," ","1"," "," ","/","/"," ","f","o","o","\n">>,
    <<"s"," ","="," ","\"","/","*"," ","x","\"",";"," ","f","o","o","\n">>,
    <<"/","*"," ","a","\n">>,
    <<"b"," ","*","/"," ","F","o","o","\n">> }

\* The files a cancellable sequential scan walks over: a .java file with a
\* match, an opened and a closed block; a .java file that leaves a block
\* open; a .py file whose block meets the end token of the other pair.
SeqFiles ==
  { [ext |-> ".java",
     lines |-> << <<"x","=","f","o","o",";","b","a","r","\n">>,
                  <<"/","*"," ","a","\n">>,
                  <<"b"," ","*","/"," ","F","o","o","\n">> >>],
    [ext |-> ".java",
     lines |-> << <<"f","o","o"," ","/","*"," ","a","\n">>,
                  <<"f","o","o","\n">> >>],
    [ext |-> ".py",
     lines |-> << <<"x"," ","="," ","\"","\"","\""," ","a","\n">>,
                  <<"'","'","'"," ","f","o","o","\n">>,
                  <<"\"","\"","\""," ","f","o","o","\n">> >>] }

\* The files os.walk can meet under a root, as (dirpath, file name): a
\* lower-case and an upper-case name with the suffix .fo, a name without it
\* in a directory whose own name ends with .fo, a name with fo inside.
WalkEntries ==
  { << <<".">>, <<"a",".","f","o">> >>,
    << <<"s","u","b">>, <<"B",".","F","O">> >>,
    << <<"d",".","f","o">>, <<"a","b">> >>,
    << <<".">>, <<"f","o",".","b">> >> }

\* The entries an extension filter is made of.
All == <<"A","l","l">>
SuffixChoices == {<<".","f","o">>, <<".","F","O">>, <<"b">>, All}

\* The arguments search_in_files can be called with.
SeqArgs ==
  [keyword : {Foo, <<"f","o">>}, exact_match : BOOLEAN, per_token : BOOLEAN,
   case_sensitive : BOOLEAN, ignore_comments : BOOLEAN]

NoSeqArgs ==
  [keyword |-> Foo, exact_match |-> FALSE, per_token |-> FALSE,
   case_sensitive |-> FALSE, ignore_comments |-> FALSE]

(* ------------------------------- state -------------------------------- *)
Scans == 1..MaxScans
Files == 1..Len(Tree)

VARIABLES
  stopevent,      \* self.stopevent (one threading.Event per application)
  searchresults,  \* self.searchresults
  history,        \* the stored history, newest entry first
  nscans,         \* number of scan threads started so far
  safeguard_entry, \* content of the safeguard entry (an integer >= 0)
  pc,             \* per scan thread: where run() / search_in_files_parallel is
  req,            \* per scan: the request captured by start_search_thread
  wstate,         \* per scan and file: the future's state
  widx,           \* per scan and file: lines the worker has processed
  wres,           \* per scan and file: the worker's local `results`
  wread,          \* per scan and file: the worker called read_text_lines
  collected,      \* per scan: futures the as_completed loop has yielded
  results,        \* per scan: the coordinator's `results`
  scanned,        \* per scan: `scanned`
  files_with_match, \* per scan: `files_with_match`
  progress,       \* per scan: the fraction last passed to throttled_progress
  cleared,        \* per scan: the event was cleared after being set mid-scan
  wf_lines,       \* a single worker call: the lines read_text_lines returned
  wf_args,        \* a single worker call: the arguments of worker_search_file
  wf_idx,         \* a single worker call: lines processed
  wf_results,     \* a single worker call: the worker's `results`
  wf_collected,   \* a single worker call: the coordinator took the future
  wf_fwm,         \* a single worker call: files_with_match after collection
  sq_app,         \* sequential scan: which program's search_in_files runs
  sq_ext,         \* sequential scan: extension of the file being scanned
  sq_lines,       \* sequential scan: the lines of the file
  sq_args,        \* sequential scan: the arguments of search_in_files
  sq_idx,         \* sequential scan: lines the loop has passed
  sq_inside,      \* sequential scan: inside_multiline
  sq_end,         \* sequential scan: current_multi_end (empty for None)
  sq_results,     \* sequential scan: `results`
  sq_files,       \* sequential scan: file_list (extension and lines of each file)
  sq_file,        \* sequential scan: idx, the file the outer loop is at
  sq_scanned,     \* sequential scan: scanned_files
  sq_pc,          \* sequential scan: where the loops of search_in_files are
  sq_stop,        \* self.stop_flag, read by stop_check
  sq_pause,       \* self.pause_flag, read by pause_check (NewUiFix.py)
  sq_dialog,      \* the confirmation dialog of the cancel handler
  sq_cancel_btn,  \* the Cancel button is enabled
  it_root,        \* file listing: the root folder (exists, the files os.walk meets)
  it_exts,        \* file listing: the `extensions` argument of iter_files
  it_pos,         \* file listing: file names the generator has passed
  filelist,       \* file listing: the paths yielded so far
  it_pc,          \* file listing: where search_in_files_parallel is
  it_ret,         \* file listing: what search_in_files_parallel returned
  vp_app,         \* VarProxy: which program's class
  vp_now,         \* VarProxy: the clock, in ticks
  vp_pending,     \* VarProxy: pending / _pending
  vp_job,         \* VarProxy: _job is set (Appsec_Repo_Search.py)
  vp_timers,      \* VarProxy: due times of the scheduled flush callbacks
  vp_last,        \* VarProxy: last (13.py)
  vp_var,         \* VarProxy: the underlying Tk variable
  vp_setpc,       \* VarProxy: the scan thread inside set()
  vp_flushpc,     \* VarProxy: the UI thread inside flush()
  vp_text,        \* VarProxy: the local `text` of flush()
  vp_sets,        \* VarProxy: the values passed to set() so far
  vp_writes       \* VarProxy: the writes <<time, value>> to the Tk variable

vars == <<stopevent, searchresults, history, nscans, safeguard_entry, unreadable, pc, req, wstate, widx,
          wres, wread, collected, results, scanned, files_with_match, progress,
          cleared, wf_lines, wf_args, wf_idx, wf_results, wf_collected, wf_fwm,
          sq_app, sq_ext, sq_lines, sq_args, sq_idx, sq_inside, sq_end,
          sq_results, sq_files, sq_file, sq_scanned, sq_pc, sq_stop, sq_pause,
          sq_dialog, sq_cancel_btn, it_root, it_exts, it_pos, filelist, it_pc,
          it_ret, vp_app, vp_now, vp_pending, vp_job, vp_timers, vp_last,
          vp_var, vp_setpc, vp_flushpc, vp_text, vp_sets, vp_writes>>

uivars == <<stopevent, searchresults, history, nscans, safeguard_entry, unreadable>>
workervars == <<wstate, widx, wres, wread>>
coordvars == <<collected, results, scanned, files_with_match>>
wfvars == <<wf_lines, wf_args, wf_idx, wf_results, wf_collected, wf_fwm>>
sqvars == <<sq_app, sq_ext, sq_lines, sq_args, sq_idx, sq_inside, sq_end,
            sq_results, sq_files, sq_file, sq_scanned, sq_pc, sq_stop, sq_pause,
            sq_dialog, sq_cancel_btn>>
sqflags == <<sq_stop, sq_pause, sq_dialog, sq_cancel_btn>>
itvars == <<it_root, it_exts, it_pos, filelist, it_pc, it_ret>>
vpvars == <<vp_app, vp_now, vp_pending, vp_job, vp_timers, vp_last, vp_var,
            vp_setpc, vp_flushpc, vp_text, vp_sets, vp_writes>>

\* The request start_search_thread captures from the widgets (their initial
\* values; the safeguard entry is the input that varies).
Request(sg) ==
  [keyword |-> Keyword, exactmatch |-> FALSE, pertoken |-> FALSE,
   casesensitive |-> FALSE, ignorecomments |-> "Yes", safeguard |-> sg,
   subscan_enabled |-> FALSE, contextkw |-> << >>,
   bufferbefore |-> 2, bufferafter |-> 2]

NoRequest == Request(0)

\* A scan thread exists and has not yet recorded its history entry.
Running(s) == pc[s] \in {"collect", "shutdown", "returned"}

\* search_in_files_parallel is executing (workers and collection loop alive).
InSearch(s) == pc[s] \in {"collect", "shutdown"}

total(s) == Len(Tree)

\* No progress report yet; a report is a fraction <<numerator, denominator>>.
NoReport == << >>

\* The application after construction, no scan started.
AppInit ==
  /\ stopevent = FALSE
  /\ searchresults = << >>
  /\ history = << >>
  /\ nscans = 0
  /\ pc = [s \in Scans |-> "idle"]
  /\ req = [s \in Scans |-> NoRequest]
  /\ wstate = [s \in Scans |-> [f \in Files |-> "queued"]]
  /\ widx = [s \in Scans |-> [f \in Files |-> 0]]
  /\ wres = [s \in Scans |-> [f \in Files |-> << >>]]
  /\ wread = [s \in Scans |-> [f \in Files |-> FALSE]]
  /\ collected = [s \in Scans |-> {}]
  /\ results = [s \in Scans |-> << >>]
  /\ scanned = [s \in Scans |-> 0]
  /\ files_with_match = [s \in Scans |-> 0]
  /\ progress = [s \in Scans |-> NoReport]
  /\ cleared = [s \in Scans |-> FALSE]

\* No single worker call is under way.
WorkerIdle ==
  /\ wf_lines = << >>
  /\ wf_args = NoRequest
  /\ wf_idx = 0
  /\ wf_results = << >>
  /\ wf_collected = FALSE
  /\ wf_fwm = 0

\* A missing value (None).
None == "None"

\* No file listing is under way.
ListIdle ==
  /\ it_root = [exists |-> FALSE, entries |-> << >>]
  /\ it_exts = << >>
  /\ it_pos = 0
  /\ filelist = << >>
  /\ it_pc = "walk"
  /\ it_ret = << >>

\* VarProxy.__init__: nothing pending, no callback scheduled.
ProxyIdle ==
  /\ vp_app = "13"
  /\ vp_now = 0
  /\ vp_pending = None
  /\ vp_job = FALSE
  /\ vp_timers = << >>
  /\ vp_last = None
  /\ vp_var = None
  /\ vp_setpc = "idle"
  /\ vp_flushpc = "idle"
  /\ vp_text = None
  /\ vp_sets = << >>
  /\ vp_writes = << >>

\* The application flags after construction and before a file is opened.
SeqFlagsIdle ==
  /\ sq_files = << >>
  /\ sq_file = 0
  /\ sq_scanned = 0
  /\ sq_pc = "file"
  /\ sq_stop = FALSE
  /\ sq_pause = FALSE
  /\ sq_dialog = "none"
  /\ sq_cancel_btn = TRUE

\* No sequential scan is under way.
SeqIdle ==
  /\ sq_app = "Appsec"
  /\ sq_ext = ".py"
  /\ sq_lines = << >>
  /\ sq_args = NoSeqArgs
  /\ sq_idx = 0
  /\ sq_inside = FALSE
  /\ sq_end = << >>
  /\ sq_results = << >>
  /\ SeqFlagsIdle

Init ==
  /\ AppInit
  /\ safeguard_entry \in SafeguardValues
  /\ unreadable \in UnreadableChoices
  /\ WorkerIdle
  /\ ListIdle
  /\ ProxyIdle
  /\ SeqIdle

(* ----------------------------- UI handlers ---------------------------- *)
\* Run button / Ctrl+R: start_search_thread.  The inputs are valid, the
\* event is cleared, the stored results are emptied and a scan thread is
\* started, which lists the files and submits one future per file.
start_search_thread ==
  /\ UNCHANGED <<wfvars, sqvars, itvars, vpvars>>
  /\ nscans < MaxScans
  /\ LET s  == nscans + 1
         sg == safeguard_entry
     IN
     /\ nscans' = s
     /\ stopevent' = FALSE
     /\ searchresults' = << >>
     /\ req' = [req EXCEPT ![s] = Request(sg)]
     /\ pc' = [pc EXCEPT ![s] = IF Files = {} THEN "shutdown" ELSE "collect"]
     /\ progress' = [progress EXCEPT ![s] =
                       IF total(s) = 0 THEN <<0, 1>> ELSE NoReport]
     /\ cleared' = [t \in Scans |-> cleared[t] \/ (Running(t) /\ stopevent)]
  /\ UNCHANGED <<history, safeguard_entry, unreadable, workervars, coordvars>>

\* Variant: a Cancel that also drops the stored results.
cancel_wipes ==
  /\ UNCHANGED <<wfvars, sqvars, itvars, vpvars>>
  /\ stopevent' = TRUE
  /\ searchresults' = << >>
  /\ UNCHANGED <<history, nscans, safeguard_entry, unreadable, pc, req,
                 workervars, coordvars, progress, cleared>>

\* Cancel button / Escape: self.stopevent.set()
cancel ==
  /\ UNCHANGED <<wfvars, sqvars, itvars, vpvars>>
  /\ stopevent' = TRUE
  /\ UNCHANGED <<searchresults, history, nscans, safeguard_entry, unreadable, pc, req,
                 workervars, coordvars, progress, cleared>>

\* Clear button: clear_results
clear_results ==
  /\ UNCHANGED <<wfvars, sqvars, itvars, vpvars>>
  /\ stopevent' = TRUE
  /\ searchresults' = << >>
  /\ UNCHANGED <<history, nscans, safeguard_entry, unreadable, pc, req, workervars,
                 coordvars, progress, cleared>>

(* ------------------------------- workers ------------------------------ *)
Busy(s) == {f \in Files : wstate[s][f] = "running"}

\* A pool thread picks the future of file f up: worker_search_file up to
\* the line loop (first checkpoint, read_text_lines).
worker_start(s, f) ==
  /\ UNCHANGED <<wfvars, sqvars, itvars, vpvars>>
  /\ InSearch(s)
  /\ wstate[s][f] = "queued"
  /\ Cardinality(Busy(s)) < maxworkers
  /\ IF stopevent
       THEN /\ wstate' = [wstate EXCEPT ![s][f] = "done"]
            /\ UNCHANGED wread
       ELSE /\ wread' = [wread EXCEPT ![s][f] = TRUE]
            /\ wstate' = [wstate EXCEPT ![s][f] =
                 IF Len(read_text_lines(f)) = 0 THEN "done" ELSE "running"]
  /\ UNCHANGED <<uivars, pc, req, widx, wres, coordvars, progress, cleared>>

\* Variant: a worker that waits while the event is set instead of breaking.
worker_line_waits(s, f) ==
  /\ UNCHANGED <<wfvars, sqvars, itvars, vpvars>>
  /\ wstate[s][f] = "running"
  /\ ~stopevent
  /\ LET lines == read_text_lines(f)
         idx   == widx[s][f] + 1
     IN /\ widx' = [widx EXCEPT ![s][f] = idx]
        /\ wres' = [wres EXCEPT ![s][f] =
                      @ \o LineRecords(f, lines, idx, req[s])]
        /\ wstate' = [wstate EXCEPT ![s][f] =
                      IF idx = Len(lines) THEN "done" ELSE "running"]
  /\ UNCHANGED <<uivars, pc, req, wread, coordvars, progress, cleared>>

\* One iteration of the line loop: the checkpoint, then the line.
worker_line(s, f) ==
  /\ UNCHANGED <<wfvars, sqvars, itvars, vpvars>>
  /\ wstate[s][f] = "running"
  /\ LET lines == read_text_lines(f)
         idx   == widx[s][f] + 1
     IN IF stopevent
          THEN /\ wstate' = [wstate EXCEPT ![s][f] = "done"]
               /\ UNCHANGED <<widx, wres>>
          ELSE /\ widx' = [widx EXCEPT ![s][f] = idx]
               /\ wres' = [wres EXCEPT ![s][f] =
                             @ \o LineRecords(f, lines, idx, req[s])]
               /\ wstate' = [wstate EXCEPT ![s][f] =
                             IF idx = Len(lines) THEN "done" ELSE "running"]
  /\ UNCHANGED <<uivars, pc, req, wread, coordvars, progress, cleared>>

(* ----------------------------- coordinator ---------------------------- *)
\* Variant: the collection loop without its checkpoint.
CoordinatorSkips_never(stop) == FALSE

\* if shared_stop.is_set(): ... continue
CoordinatorSkips(stop) == stop

\* Variant: files_with_match += len(matches)
NextFilesWithMatch_permatch(n, matches) == n + Len(matches)

\* Variant: files_with_match += 1 for every collected file.
NextFilesWithMatch_always(n, matches) == n + 1

\* if matches: ... files_with_match += 1
NextFilesWithMatch(n, matches) == IF matches # << >> THEN n + 1 ELSE n

\* Variant: a file without matches is not counted.
NextScanned_matchedonly(n, matches) == IF matches = << >> THEN n ELSE n + 1

\* scanned += 1
NextScanned(n, matches) == n + 1

\* Variant: the cap tested with > instead of >=.
SafeguardReached_late(sg, n) == sg > 0 /\ n > sg

\* if safeguard and safeguard > 0 and scanned >= safeguard: break
SafeguardReached(sg, n) == sg > 0 /\ n >= sg

\* if now - last_update >= 0.20 or scanned == total
ProgressDue(elapsed, n, tot) == elapsed \/ n = tot

\* frac = scanned / total if total else 1.0
Frac(n, tot) == IF tot # 0 THEN <<n, tot>> ELSE <<1, 1>>

\* Variant: a collection loop that commits a future only when the progress
\* update is due.
collect_whendue(s, f) ==
  /\ UNCHANGED <<wfvars, sqvars, itvars, vpvars>>
  /\ pc[s] = "collect"
  /\ wstate[s][f] = "done"
  /\ f \notin collected[s]
  /\ collected' = [collected EXCEPT ![s] = @ \cup {f}]
  /\ \E elapsed \in BOOLEAN :
       IF CoordinatorSkips(stopevent) \/ ~ProgressDue(elapsed, scanned[s] + 1, total(s))
       THEN /\ UNCHANGED <<results, scanned, files_with_match, progress>>
            /\ pc' = [pc EXCEPT ![s] =
                 IF collected'[s] = Files THEN "shutdown" ELSE "collect"]
       ELSE LET matches == wres[s][f] IN
            /\ results' = [results EXCEPT ![s] = @ \o matches]
            /\ files_with_match' = [files_with_match EXCEPT ![s] =
                 NextFilesWithMatch(@, matches)]
            /\ scanned' = [scanned EXCEPT ![s] = NextScanned(@, matches)]
            /\ progress' = [progress EXCEPT ![s] = Frac(scanned'[s], total(s))]
            /\ pc' = [pc EXCEPT ![s] =
                 IF \/ SafeguardReached(req[s].safeguard, scanned'[s])
                    \/ collected'[s] = Files
                 THEN "shutdown" ELSE "collect"]
  /\ UNCHANGED <<uivars, req, workervars, cleared>>

\* One iteration of the as_completed loop for the finished future of f.
\* `elapsed` tells whether 0.20 s have passed since the last progress update.
collect(s, f) ==
  /\ UNCHANGED <<wfvars, sqvars, itvars, vpvars>>
  /\ pc[s] = "collect"
  /\ wstate[s][f] = "done"
  /\ f \notin collected[s]
  /\ collected' = [collected EXCEPT ![s] = @ \cup {f}]
  /\ \E elapsed \in BOOLEAN :
       IF CoordinatorSkips(stopevent)
       THEN /\ UNCHANGED <<results, scanned, files_with_match, progress>>
            /\ pc' = [pc EXCEPT ![s] =
                 IF collected'[s] = Files THEN "shutdown" ELSE "collect"]
       ELSE LET matches == wres[s][f] IN
            /\ results' = [results EXCEPT ![s] = @ \o matches]
            /\ files_with_match' = [files_with_match EXCEPT ![s] =
                 NextFilesWithMatch(@, matches)]
            /\ scanned' = [scanned EXCEPT ![s] = NextScanned(@, matches)]
            /\ progress' = [progress EXCEPT ![s] =
                 IF ProgressDue(elapsed, scanned'[s], total(s))
                 THEN Frac(scanned'[s], total(s)) ELSE @]
            /\ pc' = [pc EXCEPT ![s] =
                 IF \/ SafeguardReached(req[s].safeguard, scanned'[s])
                    \/ collected'[s] = Files
                 THEN "shutdown" ELSE "collect"]
  /\ UNCHANGED <<uivars, req, workervars, cleared>>

\* Leaving the `with ThreadPoolExecutor` block: shutdown(wait=True) returns
\* when every submitted future has run; then the final updates
\* (throttled_progress(1.0 if total else 0.0)) and return.
executor_shutdown(s) ==
  /\ UNCHANGED <<wfvars, sqvars, itvars, vpvars>>
  /\ pc[s] = "shutdown"
  /\ \A f \in Files : wstate[s][f] = "done"
  /\ pc' = [pc EXCEPT ![s] = "returned"]
  /\ progress' = [progress EXCEPT ![s] =
                    IF total(s) # 0 THEN <<1, 1>> ELSE <<0, 1>>]
  /\ UNCHANGED <<uivars, req, workervars, coordvars, cleared>>

(* -------------------------- run(): after return ----------------------- *)
\* "status": "cancelled" if self.stopevent.is_set() else "success"
ScanStatus(stop) == IF stop THEN "cancelled" ELSE "success"

RecordSet(sq) == {sq[i] : i \in 1..Len(sq)}

\* The stop event was seen set at a checkpoint of scan s: a worker returned
\* at its first checkpoint or broke out of its line loop, or the collection
\* loop skipped a future.
Observed(s) ==
  \/ \E f \in Files : /\ wstate[s][f] = "done"
                      /\ \/ ~wread[s][f]
                         \/ widx[s][f] < Len(read_text_lines(f))
  \/ Cardinality(collected[s]) > scanned[s]

\* The stop event has been set at some moment since scan s started.
WasSet(s) == stopevent \/ cleared[s]

\* The history entry of scan s.  records and wasset are not stored by the
\* program: they keep what the scan returned and whether its event was set.
HistoryEntry(s) ==
  [filesscanned |-> scanned[s],
   totalfiles |-> total(s),
   matchesfound |-> Len(results[s]),
   fileswithmatch |-> files_with_match[s],
   status |-> ScanStatus(stopevent),
   safeguard |-> req[s].safeguard,
   records |-> RecordSet(results[s]),
   wasset |-> WasSet(s)]

\* run() after search_in_files_parallel has returned: self.searchresults =
\* results, then the entry is inserted at the head of the history, which is
\* cut to MAX_HISTORY.  The thread ends and its locals are gone.
record_history(s) ==
  /\ UNCHANGED <<wfvars, sqvars, itvars, vpvars>>
  /\ pc[s] = "returned"
  /\ searchresults' = results[s]
  /\ LET h == <<HistoryEntry(s)>> \o history
     IN  history' = SubSeq(h, 1, IF Len(h) < MAX_HISTORY THEN Len(h) ELSE MAX_HISTORY)
  /\ pc' = [pc EXCEPT ![s] = "done"]
  /\ req' = [req EXCEPT ![s] = NoRequest]
  /\ wstate' = [wstate EXCEPT ![s] = [f \in Files |-> "queued"]]
  /\ widx' = [widx EXCEPT ![s] = [f \in Files |-> 0]]
  /\ wres' = [wres EXCEPT ![s] = [f \in Files |-> << >>]]
  /\ wread' = [wread EXCEPT ![s] = [f \in Files |-> FALSE]]
  /\ collected' = [collected EXCEPT ![s] = {}]
  /\ results' = [results EXCEPT ![s] = << >>]
  /\ scanned' = [scanned EXCEPT ![s] = 0]
  /\ files_with_match' = [files_with_match EXCEPT ![s] = 0]
  /\ progress' = [progress EXCEPT ![s] = NoReport]
  /\ cleared' = [cleared EXCEPT ![s] = FALSE]
  /\ UNCHANGED <<stopevent, nscans, safeguard_entry, unreadable>>

Next ==
  \/ start_search_thread
  \/ cancel
  \/ clear_results
  \/ \E s \in Scans, f \in Files : worker_start(s, f)
  \/ \E s \in Scans, f \in Files : worker_line(s, f)
  \/ \E s \in Scans, f \in Files : collect(s, f)
  \/ \E s \in Scans : executor_shutdown(s)
  \/ \E s \in Scans : record_history(s)

\* The application: up to MaxScans Run requests, which may overlap.
Spec == Init /\ [][Next]_vars

\* One scan: the behaviours with a single Run request, in which the event
\* passed to search_in_files_parallel is set at any moment and never cleared.
ScanNext ==
  \/ (nscans = 0 /\ start_search_thread)
  \/ cancel
  \/ clear_results
  \/ \E s \in Scans, f \in Files : worker_start(s, f)
  \/ \E s \in Scans, f \in Files : worker_line(s, f)
  \/ \E s \in Scans, f \in Files : collect(s, f)
  \/ \E s \in Scans : executor_shutdown(s)
  \/ \E s \in Scans : record_history(s)

ScanSpec == Init /\ [][ScanNext]_vars

\* The pool threads and the scan thread are scheduled by the operating
\* system: a step that stays possible is eventually taken.
ThreadFairness ==
  /\ \A s \in Scans, f \in Files : WF_vars(worker_start(s, f))
  /\ \A s \in Scans, f \in Files : WF_vars(worker_line(s, f))
  /\ \A s \in Scans, f \in Files : WF_vars(collect(s, f))
  /\ \A s \in Scans : WF_vars(executor_shutdown(s))
  /\ \A s \in Scans : WF_vars(record_history(s))

FairScanSpec == ScanSpec /\ ThreadFairness

FairSpec == Spec /\ ThreadFairness

(* ------------------------- a single worker call ---------------------- *)
\* The arguments worker_search_file can be called with.
WorkerArgs ==
  {[keyword |-> Foo, exactmatch |-> e, pertoken |-> p, casesensitive |-> c,
    ignorecomments |-> ic, safeguard |-> 0, subscan_enabled |-> sub,
    contextkw |-> ctx, bufferbefore |-> b[1], bufferafter |-> b[2]] :
     e \in BOOLEAN, p \in BOOLEAN, c \in BOOLEAN, ic \in {"Yes", "No"},
     sub \in BOOLEAN, ctx \in {<< >>, Bar}, b \in WorkerBuffers}

\* A scan of a one-file tree during which the stop event is never set: the
\* file and the arguments are any of the enumerated ones.
WorkerInit ==
  /\ AppInit
  /\ safeguard_entry = 0
  /\ unreadable = {}
  /\ wf_lines \in WorkerFiles
  /\ wf_args \in {a \in WorkerArgs :
        ~a.subscan_enabled => (a.contextkw = << >> /\ a.bufferbefore = 2 /\ a.bufferafter = 2)}
  /\ wf_idx = 0
  /\ wf_results = << >>
  /\ wf_collected = FALSE
  /\ wf_fwm = 0
  /\ SeqIdle
  /\ ListIdle
  /\ ProxyIdle

\* One iteration of the line loop of worker_search_file.
search_file_line ==
  /\ wf_idx < Len(wf_lines)
  /\ wf_idx' = wf_idx + 1
  /\ wf_results' = wf_results \o LineRecords(1, wf_lines, wf_idx + 1, wf_args)
  /\ UNCHANGED <<wf_lines, wf_args, wf_collected, wf_fwm>>
  /\ UNCHANGED <<uivars, pc, req, workervars, coordvars, progress, cleared, sqvars, itvars, vpvars>>

\* The worker has returned; the as_completed loop takes its future.
search_file_collect ==
  /\ wf_idx = Len(wf_lines)
  /\ ~wf_collected
  /\ wf_collected' = TRUE
  /\ wf_fwm' = NextFilesWithMatch(wf_fwm, wf_results)
  /\ UNCHANGED <<wf_lines, wf_args, wf_idx, wf_results>>
  /\ UNCHANGED <<uivars, pc, req, workervars, coordvars, progress, cleared, sqvars, itvars, vpvars>>

WorkerNext == search_file_line \/ search_file_collect

WorkerSpec == WorkerInit /\ [][WorkerNext]_vars

(* ----------------------- a sequential file scan ----------------------- *)
\* search_in_files reaches a file of the tree: any enumerated file, of an
\* extension with or (.txt) without comment syntax, any arguments, in
\* either program.
SeqInit ==
  /\ AppInit
  /\ safeguard_entry = 0
  /\ unreadable = {}
  /\ WorkerIdle
  /\ ListIdle
  /\ ProxyIdle
  /\ sq_app \in {"Appsec", "NewUiFix"}
  /\ sq_ext \in {".py", ".java", ".txt"}
  /\ sq_lines \in SeqsUpTo(SeqLineTexts, MaxFileLines)
  /\ sq_args \in SeqArgs
  /\ sq_idx = 0
  /\ sq_inside = FALSE
  /\ sq_end = << >>
  /\ sq_results = << >>
  /\ SeqFlagsIdle

\* The body of the line loop of search_in_files for line sq_idx + 1 of file
\* `file`: the comment handling, the match test and
\* results.append((file, i, original_line)).
line_body(file) ==
  LET i == sq_idx + 1
      p == ProcessLine(sq_app, sq_ext, sq_lines[i], sq_inside, sq_end, sq_args)
  IN  /\ sq_idx' = i
      /\ sq_inside' = p.inside
      /\ sq_end' = p.end
      /\ sq_results' =
           IF ~p.skip /\ MatchFound(p.text, sq_args)
           THEN Append(sq_results, <<file, i, rstrip_nl(sq_lines[i])>>)
           ELSE sq_results

\* One iteration of the line loop of search_in_files called without
\* stop_check and pause_check.
search_in_files_line ==
  /\ sq_idx < Len(sq_lines)
  /\ line_body(1)
  /\ UNCHANGED <<sq_app, sq_ext, sq_lines, sq_args, sq_files, sq_file,
                 sq_scanned, sq_pc, sqflags>>
  /\ UNCHANGED <<uivars, pc, req, workervars, coordvars, progress, cleared, wfvars, itvars, vpvars>>

SeqNext == search_in_files_line

SeqSpec == SeqInit /\ [][SeqNext]_vars

(* ------------------ a cancellable sequential scan -------------------- *)
\* search_in_files as the applications call it, with stop_check (and, in
\* NewUiFix.py, pause_check) reading the flags the cancel handlers write.
\* Every read of a flag is a step of its own; the handlers run on the UI
\* thread and interleave with the steps of the scan thread.
FileScanArgs ==
  {a \in SeqArgs : a.keyword = Foo /\ ~a.exact_match /\ ~a.per_token /\ ~a.case_sensitive}

FilesInit ==
  /\ AppInit
  /\ safeguard_entry = 0
  /\ unreadable = {}
  /\ WorkerIdle
  /\ ListIdle
  /\ ProxyIdle
  /\ sq_app \in {"Appsec", "NewUiFix"}
  /\ sq_files \in SeqsUpTo(SeqFiles, MaxSeqFiles)
  /\ sq_args \in FileScanArgs
  /\ sq_ext = ".py"
  /\ sq_lines = << >>
  /\ sq_idx = 0
  /\ sq_inside = FALSE
  /\ sq_end = << >>
  /\ sq_results = << >>
  /\ sq_file = 0
  /\ sq_scanned = 0
  /\ sq_pc = "file"
  /\ sq_stop = FALSE
  /\ sq_pause = FALSE
  /\ sq_dialog = "none"
  /\ sq_cancel_btn = TRUE

notseq == <<uivars, pc, req, workervars, coordvars, progress, cleared, wfvars, itvars, vpvars>>

\* Variant: the multi-line state of the previous file is carried over.
open_file_carry(idx) ==
  /\ sq_ext' = sq_files[idx].ext
  /\ sq_lines' = sq_files[idx].lines
  /\ sq_idx' = 0
  /\ UNCHANGED <<sq_inside, sq_end>>
  /\ sq_pc' = "line"

\* ext = os.path.splitext(file)[1]; the markers; inside_multiline = False;
\* current_multi_end = None; open(file) and the start of the line loop.
open_file(idx) ==
  /\ sq_ext' = sq_files[idx].ext
  /\ sq_lines' = sq_files[idx].lines
  /\ sq_idx' = 0
  /\ sq_inside' = FALSE
  /\ sq_end' = << >>
  /\ sq_pc' = "line"

keep_file == UNCHANGED <<sq_ext, sq_lines, sq_idx, sq_inside, sq_end>>

\* Top of the file loop: the next idx and "if stop_check and stop_check(): break".
file_check ==
  /\ sq_pc = "file"
  /\ IF sq_file = Len(sq_files)
     THEN sq_pc' = "done" /\ keep_file /\ UNCHANGED sq_file
     ELSE /\ sq_file' = sq_file + 1
          /\ IF sq_stop THEN sq_pc' = "done" /\ keep_file
             ELSE IF sq_app = "NewUiFix" THEN sq_pc' = "fpause" /\ keep_file
             ELSE open_file(sq_file + 1)
  /\ UNCHANGED <<sq_app, sq_args, sq_results, sq_files, sq_scanned, sqflags>>
  /\ UNCHANGED notseq

\* "while pause_check and pause_check():" at file or line level.
pause_check ==
  /\ sq_pc \in {"fpause", "lpause"}
  /\ sq_pc' = IF sq_pc = "fpause"
              THEN (IF sq_pause THEN "fpstop" ELSE "fstop")
              ELSE (IF sq_pause THEN "lpstop" ELSE "lstop")
  /\ keep_file
  /\ UNCHANGED <<sq_app, sq_args, sq_results, sq_files, sq_file, sq_scanned, sqflags>>
  /\ UNCHANGED notseq

\* Inside the wait loop: "if stop_check and stop_check(): break", else
\* time.sleep(0.08) and back to the loop test.
pause_stop_check ==
  /\ sq_pc \in {"fpstop", "lpstop"}
  /\ sq_pc' = IF sq_pc = "fpstop"
              THEN (IF sq_stop THEN "fstop" ELSE "fpause")
              ELSE (IF sq_stop THEN "lstop" ELSE "lpause")
  /\ keep_file
  /\ UNCHANGED <<sq_app, sq_args, sq_results, sq_files, sq_file, sq_scanned, sqflags>>
  /\ UNCHANGED notseq

\* "if stop_check and stop_check(): break" after the wait loop.
resume_check ==
  /\ sq_pc \in {"fstop", "lstop"}
  /\ IF sq_pc = "fstop"
     THEN IF sq_stop THEN sq_pc' = "done" /\ keep_file
          ELSE open_file(sq_file)
     ELSE sq_pc' = (IF sq_stop THEN "eof" ELSE "body") /\ keep_file
  /\ UNCHANGED <<sq_app, sq_args, sq_results, sq_files, sq_file, sq_scanned, sqflags>>
  /\ UNCHANGED notseq

\* Top of the line loop: the next line and "if stop_check and stop_check(): break".
line_check ==
  /\ sq_pc = "line"
  /\ sq_pc' = IF sq_idx = Len(sq_lines) \/ sq_stop THEN "eof"
              ELSE IF sq_app = "NewUiFix" THEN "lpause" ELSE "body"
  /\ keep_file
  /\ UNCHANGED <<sq_app, sq_args, sq_results, sq_files, sq_file, sq_scanned, sqflags>>
  /\ UNCHANGED notseq

\* The rest of the iteration, after the checks
line_process ==
  /\ sq_pc = "body"
  /\ line_body(sq_file)
  /\ sq_pc' = "line"
  /\ UNCHANGED <<sq_app, sq_ext, sq_lines, sq_args, sq_files, sq_file, sq_scanned, sqflags>>
  /\ UNCHANGED notseq

\* After the line loop.  NewUiFix.py: "if stop_check and stop_check(): break"
\* leaves the file loop.  Appsec_Repo_Search.py: the same test guards a
\* `pass`; then scanned_files = idx.
file_end ==
  /\ sq_pc = "eof"
  /\ IF sq_app = "NewUiFix"
     THEN sq_pc' = (IF sq_stop THEN "done" ELSE "progress") /\ UNCHANGED sq_scanned
     ELSE sq_pc' = "progress" /\ sq_scanned' = sq_file
  /\ keep_file
  /\ UNCHANGED <<sq_app, sq_args, sq_results, sq_files, sq_file, sqflags>>
  /\ UNCHANGED notseq

\* The per-file progress update and "if stop_check and stop_check(): break".
file_progress ==
  /\ sq_pc = "progress"
  /\ sq_pc' = IF sq_stop THEN "done" ELSE "file"
  /\ keep_file
  /\ UNCHANGED <<sq_app, sq_args, sq_results, sq_files, sq_file, sq_scanned, sqflags>>
  /\ UNCHANGED notseq

keep_scan ==
  UNCHANGED <<sq_app, sq_ext, sq_lines, sq_args, sq_idx, sq_inside, sq_end,
              sq_results, sq_files, sq_file, sq_scanned, sq_pc>>

\* Variant: the worker is paused without the dialog that ends the pause.
cancel_search_nodialog ==
  /\ sq_app = "NewUiFix"
  /\ sq_cancel_btn
  /\ sq_pause' = TRUE
  /\ UNCHANGED <<sq_stop, sq_dialog, sq_cancel_btn>>
  /\ keep_scan
  /\ UNCHANGED notseq

\* NewUiFix.py cancel_search up to the dialog: pause_flag = True, the Cancel
\* button is disabled, messagebox.askyesno blocks the UI thread.
cancel_search ==
  /\ sq_app = "NewUiFix"
  /\ sq_cancel_btn
  /\ sq_dialog = "none"
  /\ sq_pause' = TRUE
  /\ sq_cancel_btn' = FALSE
  /\ sq_dialog' = "open"
  /\ UNCHANGED sq_stop
  /\ keep_scan
  /\ UNCHANGED notseq

\* The dialog is answered Yes: stop_flag = True ...
cancel_search_yes ==
  /\ sq_dialog = "open"
  /\ sq_stop' = TRUE
  /\ sq_dialog' = "confirmed"
  /\ UNCHANGED <<sq_pause, sq_cancel_btn>>
  /\ keep_scan
  /\ UNCHANGED notseq

\* ... and then pause_flag = False.
cancel_search_unpause ==
  /\ sq_dialog = "confirmed"
  /\ sq_pause' = FALSE
  /\ sq_dialog' = "none"
  /\ UNCHANGED <<sq_stop, sq_cancel_btn>>
  /\ keep_scan
  /\ UNCHANGED notseq

\* The dialog is answered No: pause_flag = False, the button is enabled.
cancel_search_no ==
  /\ sq_dialog = "open"
  /\ sq_pause' = FALSE
  /\ sq_cancel_btn' = TRUE
  /\ sq_dialog' = "none"
  /\ UNCHANGED sq_stop
  /\ keep_scan
  /\ UNCHANGED notseq

\* Appsec_Repo_Search.py cancel_search_immediate (Cancel button or Escape),
\* dialog answered Yes: stop_flag = True, the button is disabled.  Answered
\* No, the handler changes nothing.
cancel_search_immediate ==
  /\ sq_app = "Appsec"
  /\ ~sq_stop
  /\ sq_stop' = TRUE
  /\ sq_cancel_btn' = FALSE
  /\ UNCHANGED <<sq_pause, sq_dialog>>
  /\ keep_scan
  /\ UNCHANGED notseq

FilesNext ==
  \/ file_check
  \/ pause_check
  \/ pause_stop_check
  \/ resume_check
  \/ line_check
  \/ line_process
  \/ file_end
  \/ file_progress
  \/ cancel_search
  \/ cancel_search_yes
  \/ cancel_search_unpause
  \/ cancel_search_no
  \/ cancel_search_immediate

FilesSpec == FilesInit /\ [][FilesNext]_vars

\* The positions of the scan thread in search_in_files.
ScanPositions ==
  {"file", "fpause", "fpstop", "fstop", "line", "lpause", "lpstop", "lstop",
   "body", "eof", "progress", "done"}

\* A step of the scan thread, told by its position: every step of the scan
\* thread moves sq_pc, no handler does, and the thread can step until
\* search_in_files has returned.
scan_thread == sq_pc # "done" /\ sq_pc' \in ScanPositions

\* The scan thread is scheduled as long as it can take a step (time.sleep
\* returns, the flags are plain attributes).
FairFilesSpec == FilesSpec /\ WF_sq_pc(scan_thread)

(* ------------------------- listing the files ------------------------- *)
\* search_in_files_parallel lists the files of a folder with iter_files: any
\* enumerated root (missing, empty or holding files) and extension filter.
ListInit ==
  /\ AppInit
  /\ safeguard_entry = 0
  /\ unreadable = {}
  /\ WorkerIdle
  /\ SeqIdle
  /\ ProxyIdle
  /\ it_root \in [exists : {FALSE}, entries : {<< >>}]
                   \cup [exists : {TRUE},
                         entries : {<< >>} \cup SeqsUpTo(WalkEntries, MaxWalk)]
  /\ it_exts \in {<< >>} \cup SeqsUpTo(SuffixChoices, MaxSuffixes)
  /\ it_pos = 0
  /\ filelist = << >>
  /\ it_pc = "walk"
  /\ it_ret = << >>

notlist == <<uivars, pc, req, workervars, coordvars, progress, cleared, wfvars,
             sqvars, vpvars>>

\* os.walk(root): the file names met, in order; a root that cannot be listed
\* is passed over without an error (onerror is None).
walk(root) == IF root.exists THEN root.entries ELSE << >>

\* exts of iter_files: None (here the empty set) without a filter or with
\* "All" in it, else the lower-cased entries.
exts(extensions) ==
  IF Len(extensions) = 0 \/ InSeq(All, extensions) THEN {}
  ELSE {norm(extensions[k], FALSE) : k \in 1..Len(extensions)}

\* Variant: the file name is compared as it is spelt.
Yields_casesensitive(fn, extensions) ==
  \/ exts(extensions) = {}
  \/ \E e \in exts(extensions) : endswith(fn, e)

\* The file name passes the filter of iter_files.
Yields(fn, extensions) ==
  \/ exts(extensions) = {}
  \/ \E e \in exts(extensions) : endswith(norm(fn, FALSE), e)

\* One file name of the walk: skipped, or os.path.join(dirpath, fn) yielded.
iter_files_next ==
  /\ it_pc = "walk"
  /\ it_pos < Len(walk(it_root))
  /\ it_pos' = it_pos + 1
  /\ filelist' = IF Yields(walk(it_root)[it_pos + 1][2], it_exts)
                 THEN Append(filelist, walk(it_root)[it_pos + 1])
                 ELSE filelist
  /\ UNCHANGED <<it_root, it_exts, it_pc, it_ret>>
  /\ UNCHANGED notlist

\* The generator is exhausted: filelist = list(...), total = len(filelist).
iter_files_done ==
  /\ it_pc = "walk"
  /\ it_pos = Len(walk(it_root))
  /\ it_pc' = "listed"
  /\ UNCHANGED <<it_root, it_exts, it_pos, filelist, it_ret>>
  /\ UNCHANGED notlist

\* total == 0: no future is submitted, the as_completed loop has nothing
\* to yield and search_in_files_parallel returns its initial counters.
search_nothing ==
  /\ it_pc = "listed"
  /\ Len(filelist) = 0
  /\ it_pc' = "returned"
  /\ it_ret' = << [results |-> << >>, scanned |-> 0, total |-> Len(filelist),
                   files_with_match |-> 0] >>
  /\ UNCHANGED <<it_root, it_exts, it_pos, filelist>>
  /\ UNCHANGED notlist

\* total > 0: one future per listed file is submitted to the pool (the scan
\* that follows is the subject of ScanSpec).
search_submit ==
  /\ it_pc = "listed"
  /\ Len(filelist) > 0
  /\ it_pc' = "pool"
  /\ UNCHANGED <<it_root, it_exts, it_pos, filelist, it_ret>>
  /\ UNCHANGED notlist

ListNext ==
  \/ iter_files_next
  \/ iter_files_done
  \/ search_nothing
  \/ search_submit

ListSpec == ListInit /\ [][ListNext]_vars

(* ------------------------------ VarProxy ------------------------------ *)
\* One VarProxy of 13.py or of Appsec_Repo_Search.py.  The scan thread
\* calls set(); Tk runs the scheduled flush callbacks one at a time on the
\* UI thread, each at or after its due time.  In 13.py the lock covers the
\* access to `pending` only, so set() and flush() are two steps each; in
\* Appsec_Repo_Search.py each method runs under the lock as a whole.
Values == {"a", "b"}

ProxyInit ==
  /\ AppInit
  /\ safeguard_entry = 0
  /\ unreadable = {}
  /\ WorkerIdle
  /\ SeqIdle
  /\ ListIdle
  /\ vp_app \in {"13", "Appsec"}
  /\ vp_now = 0
  /\ vp_pending = None
  /\ vp_job = FALSE
  /\ vp_timers = << >>
  /\ vp_last = None
  /\ vp_var = None
  /\ vp_setpc = "idle"
  /\ vp_flushpc = "idle"
  /\ vp_text = None
  /\ vp_sets = << >>
  /\ vp_writes = << >>

notproxy == <<uivars, pc, req, workervars, coordvars, progress, cleared, wfvars,
              sqvars, itvars>>

\* Time passes.
tick ==
  /\ vp_now < MaxTime
  /\ vp_now' = vp_now + 1
  /\ UNCHANGED <<vp_app, vp_pending, vp_job, vp_timers, vp_last, vp_var, vp_setpc,
                 vp_flushpc, vp_text, vp_sets, vp_writes>>
  /\ UNCHANGED notproxy

\* A call of set() can start: the scan thread is not inside one.
CanSet ==
  /\ vp_setpc = "idle"
  /\ Len(vp_sets) < MaxSets
  /\ vp_now + interval <= MaxTime

\* Variant: a value already pending is kept.
set_lock_first(text) ==
  /\ vp_app = "13"
  /\ CanSet
  /\ vp_pending' = IF vp_pending = None THEN text ELSE vp_pending
  /\ vp_sets' = Append(vp_sets, text)
  /\ vp_setpc' = "after"
  /\ UNCHANGED <<vp_app, vp_now, vp_job, vp_timers, vp_last, vp_var, vp_flushpc,
                 vp_text, vp_writes>>
  /\ UNCHANGED notproxy

\* 13.py set(): "with self.lock: self.pending = text".
set_lock(text) ==
  /\ vp_app = "13"
  /\ CanSet
  /\ vp_pending' = text
  /\ vp_sets' = Append(vp_sets, text)
  /\ vp_setpc' = "after"
  /\ UNCHANGED <<vp_app, vp_now, vp_job, vp_timers, vp_last, vp_var, vp_flushpc,
                 vp_text, vp_writes>>
  /\ UNCHANGED notproxy

\* 13.py set(): self.app.after(self.interval, self.flush).
set_after ==
  /\ vp_app = "13"
  /\ vp_setpc = "after"
  /\ vp_timers' = Append(vp_timers, vp_now + interval)
  /\ vp_setpc' = "idle"
  /\ UNCHANGED <<vp_app, vp_now, vp_pending, vp_job, vp_last, vp_var, vp_flushpc,
                 vp_text, vp_sets, vp_writes>>
  /\ UNCHANGED notproxy

\* The earliest scheduled callback is due and the UI thread is free.
Due == vp_flushpc = "idle" /\ vp_timers # << >> /\ Head(vp_timers) <= vp_now

\* 13.py flush(), the locked part: return when nothing is pending, else
\* text = self.pending; self.pending = None.
flush_lock ==
  /\ vp_app = "13"
  /\ Due
  /\ vp_timers' = Tail(vp_timers)
  /\ IF vp_pending = None
     THEN UNCHANGED <<vp_pending, vp_text, vp_flushpc>>
     ELSE /\ vp_text' = vp_pending
          /\ vp_pending' = None
          /\ vp_flushpc' = "write"
  /\ UNCHANGED <<vp_app, vp_now, vp_job, vp_last, vp_var, vp_setpc, vp_sets, vp_writes>>
  /\ UNCHANGED notproxy

\* 13.py flush(), after the lock: "if text != self.last: self.var.set(text);
\* self.last = text".
flush_write ==
  /\ vp_app = "13"
  /\ vp_flushpc = "write"
  /\ IF vp_text # vp_last
     THEN /\ vp_var' = vp_text
          /\ vp_last' = vp_text
          /\ vp_writes' = Append(vp_writes, <<vp_now, vp_text>>)
     ELSE UNCHANGED <<vp_var, vp_last, vp_writes>>
  /\ vp_text' = None
  /\ vp_flushpc' = "idle"
  /\ UNCHANGED <<vp_app, vp_now, vp_pending, vp_job, vp_timers, vp_setpc, vp_sets>>
  /\ UNCHANGED notproxy

\* Appsec_Repo_Search.py set(): under the lock, _pending = value and, when
\* no job is set, _job = root.after(interval_ms, _flush).
appsec_set(value) ==
  /\ vp_app = "Appsec"
  /\ CanSet
  /\ vp_pending' = value
  /\ vp_sets' = Append(vp_sets, value)
  /\ IF ~vp_job
     THEN vp_job' = TRUE /\ vp_timers' = Append(vp_timers, vp_now + interval)
     ELSE UNCHANGED <<vp_job, vp_timers>>
  /\ UNCHANGED <<vp_app, vp_now, vp_last, vp_var, vp_setpc, vp_flushpc, vp_text,
                 vp_writes>>
  /\ UNCHANGED notproxy

\* Appsec_Repo_Search.py _flush(): under the lock, a pending value is
\* written and cleared, then _job = None.
appsec_flush ==
  /\ vp_app = "Appsec"
  /\ Due
  /\ vp_timers' = Tail(vp_timers)
  /\ IF vp_pending # None
     THEN /\ vp_var' = vp_pending
          /\ vp_writes' = Append(vp_writes, <<vp_now, vp_pending>>)
          /\ vp_pending' = None
     ELSE UNCHANGED <<vp_var, vp_writes, vp_pending>>
  /\ vp_job' = FALSE
  /\ UNCHANGED <<vp_app, vp_now, vp_last, vp_setpc, vp_flushpc, vp_text, vp_sets>>
  /\ UNCHANGED notproxy

ProxyNext ==
  \/ tick
  \/ \E text \in Values : set_lock(text)
  \/ set_after
  \/ flush_lock
  \/ flush_write
  \/ \E value \in Values : appsec_set(value)
  \/ appsec_flush

ProxySpec == ProxyInit /\ [][ProxyNext]_vars

(* ------------------------------ properties ---------------------------- *)
Min(a, b) == IF a < b THEN a ELSE b

AllLines(f) == read_text_lines(f)

\* Every record a complete pass over file f produces under request rq.
FullRecords(f, rq) == RecordSet(FileRecords(f, AllLines(f), Len(AllLines(f)), rq))

RecordsOf(sq, f) == {r \in RecordSet(sq) : r[1] = f}

\* The worker of file f in scan s left its line loop at a checkpoint.
Broke(s, f) == wstate[s][f] = "done" /\ wread[s][f] /\ widx[s][f] < Len(AllLines(f))

\* C1: while the stop event has not been cleared during the scan, the
\* coordinator's results hold, for every file, either every qualifying line
\* of the file or none: a list cut short by a break is never committed.
C1_AllOrNothingPerFile ==
  \A s \in Scans : (Running(s) /\ ~cleared[s]) =>
    \A f \in Files :
      \/ RecordsOf(results[s], f) = {}
      \/ RecordsOf(results[s], f) = FullRecords(f, req[s])

\* A scan has returned after a worker broke out mid-file holding a
\* non-empty partial list and the coordinator collected that future.
C1_Witness ==
  \E s \in Scans, f \in Files :
    /\ pc[s] = "returned" /\ ~cleared[s]
    /\ Broke(s, f) /\ wres[s][f] # << >> /\ f \in collected[s]
    /\ RecordsOf(results[s], f) = {}

\* C2: once the stop event is set while a scan is running, it stays set
\* until that scan has recorded its terminal state.
C2_StopNeverClearedMidScan ==
  [][\A s \in Scans :
       (stopevent /\ Running(s) /\ (Running(s))') => stopevent']_vars

\* C3: once the stop event has been set during a scan, no worker of the
\* scan reads a file or processes a further line, and the coordinator
\* neither appends a match nor increments scanned or files_with_match.
C3_NothingAfterStop ==
  [][\A s \in Scans :
       (InSearch(s) /\ WasSet(s) /\ (InSearch(s))') =>
         /\ results'[s] = results[s]
         /\ scanned'[s] = scanned[s]
         /\ files_with_match'[s] = files_with_match[s]
         /\ wread'[s] = wread[s]
         /\ widx'[s] = widx[s]]_vars

\* C4: the recorded status is 'cancelled' exactly when the stop event was
\* observed set at a worker or coordinator checkpoint of that scan (so a
\* scan whose every file was collected is recorded as 'success').
C4_StatusIffObserved ==
  [][\A s \in Scans :
       (pc[s] = "returned" /\ pc'[s] = "done") =>
         ((history'[1].status = "cancelled") <=> Observed(s))]_vars

\* C5: every scan terminates: once the futures are submitted, whenever the
\* stop event is set, the workers finish, the collection loop drains, the
\* executor shuts down and search_in_files_parallel returns.
C5_ScanReturns ==
  \A s \in Scans : (pc[s] = "collect") ~> (pc[s] \in {"returned", "done"})

\* A scan returned although the event was set mid-scan: one worker never
\* read its file and another broke out of its line loop.
C5_Witness ==
  \E s \in Scans, f, g \in Files :
    /\ pc[s] = "returned" /\ stopevent
    /\ wstate[s][f] = "done" /\ ~wread[s][f]
    /\ Broke(s, g)

\* C6: at every point of the collection loop and in the returned and
\* recorded values, scanned <= total and files_with_match <= scanned.
C6_CounterBounds ==
  /\ \A s \in Scans : /\ scanned[s] <= total(s)
                      /\ files_with_match[s] <= scanned[s]
  /\ \A i \in 1..Len(history) :
       /\ history[i].filesscanned <= history[i].totalfiles
       /\ history[i].fileswithmatch <= history[i].filesscanned

\* A cancelled scan returned with a file with matches counted and another
\* file skipped.
C6_Witness ==
  \E s \in Scans :
    /\ pc[s] = "returned" /\ stopevent
    /\ files_with_match[s] > 0 /\ scanned[s] < total(s)

ExpectedScanned(sg, n) == IF sg = 0 THEN n ELSE Min(sg, n)

C8_NoReadAfterCap ==
  [][\A s \in Scans, f \in Files :
       (InSearch(s) /\ SafeguardReached(req[s].safeguard, scanned[s])
          /\ ~wread[s][f]) => ~wread'[s][f]]_vars

\* C9: two scans with the same request over the same tree, the stop event
\* never set during either, return the same set of records.
C9_SameRecordSets ==
  \A i, j \in 1..Len(history) :
    (~history[i].wasset /\ ~history[j].wasset
       /\ history[i].safeguard = history[j].safeguard) =>
      history[i].records = history[j].records

\* C10: a file whose read fails contributes no match, is counted in scanned
\* when collected, and leaves the records of the other files as they are.
C10_FailedReadIsolated ==
  \A s \in Scans : Running(s) =>
    /\ \A f \in unreadable :
         /\ wres[s][f] = << >>
         /\ RecordsOf(results[s], f) = {}
    /\ ~WasSet(s) => scanned[s] = Cardinality(collected[s])
    /\ (pc[s] = "returned" /\ ~WasSet(s) /\ req[s].safeguard = 0) =>
         /\ scanned[s] = total(s)
         /\ RecordSet(results[s]) =
              UNION {FullRecords(f, req[s]) : f \in Files \ unreadable}

\* An uncancelled, uncapped scan returned after collecting an unreadable
\* file and the matches of a readable one.
C10_Witness ==
  \E s \in Scans, f, g \in Files :
    /\ pc[s] = "returned" /\ ~WasSet(s) /\ req[s].safeguard = 0
    /\ f \in unreadable /\ f \in collected[s] /\ wread[s][f]
    /\ RecordsOf(results[s], g) # {}

\* C11: progress throttling never affects result recording: for every
\* future the collection loop takes while the stop event is not set, its
\* matches are appended to results and the counters are updated, whether or
\* not the progress update fires for that file.
C11_ThrottleNeverDrops ==
  [][\A s \in Scans, f \in Files :
       (pc[s] = "collect" /\ ~stopevent
          /\ f \notin collected[s] /\ f \in collected'[s]) =>
         /\ results'[s] = results[s] \o wres[s][f]
         /\ scanned'[s] = scanned[s] + 1
         /\ files_with_match'[s] =
              files_with_match[s] + (IF wres[s][f] # << >> THEN 1 ELSE 0)]_vars

\* A file with matches was collected and counted although the throttle let
\* no progress update fire for it.
C11_Witness ==
  \E s \in Scans :
    /\ pc[s] = "collect" /\ progress[s] = NoReport
    /\ scanned[s] = 1 /\ results[s] # << >> /\ files_with_match[s] = 1

\* C12: Cancel is idempotent and a no-op after completion: setting the stop
\* event when it is already set changes nothing, and setting it after a scan
\* has recorded its terminal state leaves the stored results and the
\* recorded history entries as they are.
C12_CancelIdempotentNoOp ==
  [][cancel =>
       /\ stopevent'
       /\ stopevent => UNCHANGED vars
       /\ \A s \in Scans : pc[s] = "done" =>
            /\ pc'[s] = "done"
            /\ searchresults' = searchresults
            /\ history' = history]_vars

\* The event was set after a scan had completed: the entry still says
\* 'success' and the stored results are still there.
C12_Witness ==
  \E s \in Scans :
    /\ pc[s] = "done" /\ stopevent
    /\ Len(history) = 1 /\ history[1].status = "success"
    /\ searchresults # << >> /\ RecordSet(searchresults) = history[1].records

\* Line i of the file of the single worker call produced a record.
Recorded(i) == \E k \in 1..Len(wf_results) : wf_results[k][2] = i

\* The context filter cannot drop a match of the single worker call.
NoContextFilter == ~wf_args.subscan_enabled \/ wf_args.contextkw = << >>

\* C13: in exact mode a line matches if and only if the line, after case
\* normalisation and trimming of leading and trailing whitespace, equals
\* the normalised keyword ('foo' and '  foo  ' match 'foo', 'foobar' does
\* not).
C13_ExactTrims ==
  (wf_args.exactmatch /\ NoContextFilter) =>
    \A i \in 1..wf_idx :
      Recorded(i) <=>
        strip(norm(wf_lines[i], wf_args.casesensitive))
          = norm(wf_args.keyword, wf_args.casesensitive)

\* The positions of text at which a single-line comment marker starts.
MarkerStarts(text) ==
  {i \in 1..Len(text) :
     \/ text[i] = "#"
     \/ i < Len(text) /\ text[i] = "/" /\ text[i + 1] = "/"
     \/ i < Len(text) /\ text[i] = "-" /\ text[i + 1] = "-"}

\* The text in front of the first single-line comment marker.
CodePart(text) ==
  IF MarkerStarts(text) = {} THEN text
  ELSE SubSeq(text, 1, (CHOOSE i \in MarkerStarts(text) :
                          \A j \in MarkerStarts(text) : i <= j) - 1)

\* C14: with ignorecomments = 'Yes' a line whose only occurrence of the
\* keyword lies in a trailing single-line comment (`x = 1  # foo`) yields
\* no match, while with ignorecomments = 'No' it yields a match.
C14_TrailingCommentIgnored ==
  (~wf_args.exactmatch /\ ~wf_args.pertoken /\ NoContextFilter) =>
    \A i \in 1..wf_idx :
      LET hay == norm(rstrip_nl(wf_lines[i]), wf_args.casesensitive)
          key == norm(wf_args.keyword, wf_args.casesensitive)
      IN  (Contains(hay, key) /\ ~Contains(CodePart(hay), key)) =>
            (Recorded(i) <=> wf_args.ignorecomments = "No")

\* The loop step that has just passed line sq_idx' appended a record.
SeqMatched == Len(sq_results') > Len(sq_results)

\* Would the line text be recorded, met outside a multi-line comment?
SeqWouldMatch(text) ==
  LET p == ProcessLine(sq_app, sq_ext, text, FALSE, << >>, sq_args)
  IN  ~p.skip /\ MatchFound(p.text, sq_args)

\* C15: with ignore_comments on, text after the first single-line marker
\* outside single and double quotes is never matched (the line is recorded
\* exactly when the line cut at that marker would be), and a marker inside
\* a quoted string hides nothing; with ignore_comments off the whole line
\* is searched.
C15_QuoteAwareMarker ==
  [][(sq_app = "Appsec" /\ sq_idx' = sq_idx + 1 /\ ~sq_inside
        /\ ~sq_args.per_token /\ ~sq_args.exact_match) =>
       LET original_line == rstrip_nl(sq_lines[sq_idx + 1])
           key == norm(sq_args.keyword, sq_args.case_sensitive)
           whole == Contains(norm(original_line, sq_args.case_sensitive), key)
           m == first_unquoted_marker_index(original_line, SINGLE_LINE_MARKERS(sq_ext))
           opens == \E k \in 1..Len(MULTI_COMMENT_TOKENS(sq_ext)) :
                      find(original_line, MULTI_COMMENT_TOKENS(sq_ext)[k][1], 1) # 0
       IN  /\ ~sq_args.ignore_comments => (SeqMatched <=> whole)
           /\ (sq_args.ignore_comments /\ m # 0) =>
                (SeqMatched <=> SeqWouldMatch(SubSeq(original_line, 1, m - 1)))
           /\ (sq_args.ignore_comments /\ m = 0 /\ ~opens) =>
                (SeqMatched <=> whole)]_vars

\* The word key stands in s as a maximal run of word characters.
IsWordRun(s, key) ==
  \E a \in 1..(Len(s) - Len(key) + 1) :
    LET b == a + Len(key) - 1
    IN  /\ SubSeq(s, a, b) = key
        /\ (a = 1 \/ ~IsWord(s[a - 1]))
        /\ (b = Len(s) \/ ~IsWord(s[b + 1]))

XFooBar == <<"x","=","f","o","o",";","b","a","r">>

\* C16: in per-token mode a line matches if and only if the normalised
\* keyword equals one of the tokens obtained by splitting the
\* comment-stripped, normalised line on runs of non-word characters
\* (`x=foo;bar` matches keyword foo and does not match keyword fo).
C16_PerTokenEquality ==
  [][(sq_idx' = sq_idx + 1 /\ sq_args.per_token) =>
       LET p == ProcessLine(sq_app, sq_ext, sq_lines[sq_idx + 1], sq_inside,
                            sq_end, sq_args)
           s == norm(p.text, sq_args.case_sensitive)
           key == norm(sq_args.keyword, sq_args.case_sensitive)
       IN  /\ \A i \in 1..Len(key) : IsWord(key[i])
           /\ SeqMatched <=> (~p.skip /\ IsWordRun(s, key))
           /\ rstrip_nl(sq_lines[sq_idx + 1]) = XFooBar =>
                (sq_inside \/ (SeqMatched <=> sq_args.keyword = Foo))]_vars

\* A per-token scan for foo has recorded `x=foo;bar` and has passed a line
\* whose only foo stands in a comment without recording it.
C16_Witness ==
  /\ sq_args.per_token /\ sq_args.keyword = Foo /\ sq_args.ignore_comments
  /\ sq_ext = ".py" /\ sq_idx = 2 /\ Len(sq_lines) = 2
  /\ rstrip_nl(sq_lines[1]) = XFooBar
  /\ Contains(sq_lines[2], Foo)
  /\ sq_results = << <<1, 1, XFooBar>> >>

RECURSIVE SortedSeq(_)
\* The numbers of S in increasing order.
SortedSeq(S) ==
  IF S = {} THEN << >>
  ELSE LET a == CHOOSE i \in S : \A j \in S : i <= j
       IN  <<a>> \o SortedSeq(S \ {a})

\* The lines of the file that can take a slot of a window.
ContentLines(lines, rq) == {i \in 1..Len(lines) : ~WindowSkips(lines[i], rq)}

\* The window the match on line L is to have: the last bufferbefore content
\* lines before L, L, the first bufferafter content lines after L.
ExpectedWindow(lines, L, rq) ==
  LET C == ContentLines(lines, rq)
      before == {j \in C : j < L /\
                   Cardinality({i \in C : j < i /\ i < L}) < rq.bufferbefore}
      after  == {j \in C : j > L /\
                   Cardinality({i \in C : L < i /\ i < j}) < rq.bufferafter}
  IN  SortedSeq(before \cup {L} \cup after)

\* The block of text made of the lines numbered in w.
BlockOf(lines, w) == rstrip(Join([i \in 1..Len(w) |-> lines[w[i]]]))

\* C17: with subscan enabled the context block of a match on line L is, in
\* file order, the last min(N, available) lines before L, line L and the
\* first min(M, available) lines after L, pure-comment lines being skipped
\* without consuming a slot when comment-ignore is on; it never reaches
\* outside the file (before 2, after 1, match on line 5 of 10: lines
\* 3,4,5,6, and 2,3,5,6 when line 4 is a comment).
C17_ContextWindow ==
  wf_args.subscan_enabled =>
    \A k \in 1..Len(wf_results) :
      LET L == wf_results[k][2]
          w == ExpectedWindow(wf_lines, L, wf_args)
      IN  /\ WindowIdx(wf_lines, L, wf_args) = w
          /\ wf_results[k][4] = BlockOf(wf_lines, w)
          /\ \A i \in 1..Len(w) : w[i] \in 1..Len(wf_lines)
          /\ (Len(wf_lines) = 10 /\ wf_args.bufferbefore = 2
                /\ wf_args.bufferafter = 1) =>
               w = IF wf_lines[4] = Line4Comment /\ wf_args.ignorecomments = "Yes"
                   THEN <<2, 3, 5, 6>> ELSE <<3, 4, 5, 6>>

\* The ten-line file with a comment on line 4 was scanned with comment-ignore
\* on, before 2 and after 1: the match on line 5 carries lines 2, 3, 5, 6.
C17_Witness ==
  /\ wf_lines = TenLines(Line4Comment) /\ wf_idx = 10
  /\ wf_args.subscan_enabled /\ wf_args.ignorecomments = "Yes"
  /\ wf_args.bufferbefore = 2 /\ wf_args.bufferafter = 1
  /\ Len(wf_results) = 1 /\ wf_results[1][2] = 5
  /\ wf_results[1][4] = BlockOf(wf_lines, <<2, 3, 5, 6>>)

\* The maximal runs of non-blank characters of s.
BlankSeparated(s) ==
  {SubSeq(s, ab[1], ab[2]) : ab \in
     {ab \in (1..Len(s)) \X (1..Len(s)) :
        /\ ab[1] <= ab[2]
        /\ \A i \in ab[1]..ab[2] : ~IsSpace(s[i])
        /\ (ab[1] = 1 \/ IsSpace(s[ab[1] - 1]))
        /\ (ab[2] = Len(s) \/ IsSpace(s[ab[2] + 1]))}}

\* The window of a match on line L holds the context keyword under the
\* match mode of the call.
WindowHoldsContext(L) ==
  LET w   == ExpectedWindow(wf_lines, L, wf_args)
      win == norm(Join([i \in 1..Len(w) |-> wf_lines[w[i]]]), wf_args.casesensitive)
      ctx == norm(wf_args.contextkw, wf_args.casesensitive)
  IN  IF wf_args.exactmatch THEN strip(win) = ctx
      ELSE IF wf_args.pertoken THEN ctx \in BlankSeparated(win)
      ELSE Contains(win, ctx)

\* C18: with subscan enabled and a context keyword, a line match whose
\* window does not hold the context keyword produces no record at all, and
\* a file all of whose matches are dropped is not counted in
\* files_with_match.
C18_ContextFilterDrops ==
  (wf_args.subscan_enabled /\ wf_args.contextkw # << >>) =>
    /\ \A i \in 1..wf_idx :
         Recorded(i) <=> (LineFound(wf_lines, i, wf_args) /\ WindowHoldsContext(i))
    /\ (wf_collected /\ wf_results = << >>) => wf_fwm = 0

\* A file with a line matching the keyword was scanned and collected: the
\* context keyword was in no window, no record was made and the file was
\* not counted.
C18_Witness ==
  /\ wf_args.subscan_enabled /\ wf_args.contextkw = Bar
  /\ wf_collected /\ wf_idx = Len(wf_lines)
  /\ \E i \in 1..Len(wf_lines) : LineFound(wf_lines, i, wf_args)
  /\ wf_results = << >> /\ wf_fwm = 0

\* A list of records in which every (file, line) pair occurs once, the
\* records of a file are contiguous, and the line numbers of a file are
\* strictly increasing and are lines of the file.
WellFormedRecords(sq) ==
  /\ \A i, j \in 1..Len(sq) :
       i # j => <<sq[i][1], sq[i][2]>> # <<sq[j][1], sq[j][2]>>
  /\ \A i, j, k \in 1..Len(sq) :
       (i < j /\ j < k /\ sq[i][1] = sq[k][1]) => sq[j][1] = sq[i][1]
  /\ \A i, j \in 1..Len(sq) :
       (i < j /\ sq[i][1] = sq[j][1]) => sq[i][2] < sq[j][2]
  /\ \A i \in 1..Len(sq) : sq[i][2] \in 1..Len(Tree[sq[i][1]].lines)

\* C19: in the results of search_in_files_parallel every (file path, line
\* number) pair appears at most once, the records of one file are
\* contiguous, and within a file the line numbers are strictly increasing
\* and lie in 1..(number of lines of the file), for every order of worker
\* completion.
C19_ResultsWellFormed ==
  /\ \A s \in Scans : WellFormedRecords(results[s])
  /\ WellFormedRecords(searchresults)

\* A scan returned the records of two files, those of the file submitted
\* second in front of the two of the file submitted first.
C19_Witness ==
  \E s \in Scans :
    /\ pc[s] = "returned" /\ Len(results[s]) = 3
    /\ results[s][1][1] = 2
    /\ results[s][2][1] = 1 /\ results[s][3][1] = 1
    /\ results[s][2][2] < results[s][3][2]

\* C20: at most one scan is running at any time: a second scan thread is
\* never started while an earlier scan thread of the application is still
\* running.
C20_AtMostOneRunning ==
  Cardinality({s \in Scans : Running(s)}) <= 1

\* C21: when stop_check becomes true while a file is partway through its
\* lines, the matches already found in that file are discarded: the
\* returned results hold no record of the file that was in progress.
C21_PartialDiscarded ==
  (sq_pc = "done" /\ sq_stop /\ sq_idx >= 1 /\ sq_idx < Len(sq_lines)) =>
    \A k \in 1..Len(sq_results) : sq_results[k][1] # sq_file

RECURSIVE ScanFrom(_, _, _, _, _, _, _, _)
\* The records an uninterrupted line loop appends for lines i.. of a file.
ScanFrom(app, ext, lines, file, i, inside, end, args) ==
  IF i > Len(lines) THEN << >>
  ELSE LET p == ProcessLine(app, ext, lines[i], inside, end, args)
       IN  (IF ~p.skip /\ MatchFound(p.text, args)
            THEN << <<file, i, rstrip_nl(lines[i])>> >> ELSE << >>)
           \o ScanFrom(app, ext, lines, file, i + 1, p.inside, p.end, args)

\* ... for the first n lines of the file at position idx of the list.
UninterruptedFile(app, files, idx, n, args) ==
  ScanFrom(app, files[idx].ext, SubSeq(files[idx].lines, 1, n), idx, 1,
           FALSE, << >>, args)

RECURSIVE UninterruptedScan(_, _, _, _)
\* ... for the first `upto` files of the list.
UninterruptedScan(app, files, upto, args) ==
  IF upto = 0 THEN << >>
  ELSE UninterruptedScan(app, files, upto - 1, args)
         \o UninterruptedFile(app, files, upto, Len(files[upto].lines), args)

\* The scan thread is inside a file / inside a wait loop.
InFile == sq_pc \in {"line", "lpause", "lpstop", "lstop", "body", "eof", "progress"}
WaitLoop == {"fpause", "fpstop", "lpause", "lpstop"}

C22_State ==
  sq_app = "NewUiFix" =>
    /\ sq_dialog = "none" => ~sq_pause
    /\ InFile =>
         sq_results = UninterruptedScan(sq_app, sq_files, sq_file - 1, sq_args)
                        \o UninterruptedFile(sq_app, sq_files, sq_file, sq_idx, sq_args)
    /\ (sq_pc = "done" /\ ~sq_stop) =>
         sq_results = UninterruptedScan(sq_app, sq_files, Len(sq_files), sq_args)

C22_Step ==
  sq_app = "NewUiFix" =>
    /\ (sq_pc \in WaitLoop /\ sq_pause /\ ~sq_stop /\ sq_pause' /\ ~sq_stop') =>
         (sq_pc' \in WaitLoop /\ UNCHANGED <<sq_idx, sq_results, sq_lines, sq_file>>)
    /\ (sq_stop /\ sq_pc # "body") => UNCHANGED <<sq_idx, sq_results, sq_lines>>
    /\ sq_idx' # sq_idx =>
         \/ sq_pc = "body" /\ sq_idx' = sq_idx + 1
         \/ sq_pc' = "line" /\ sq_idx' = 0

EarliestStart(line, toks) ==
  {k \in 1..Len(toks) :
     /\ find(line, toks[k][1], 1) # 0
     /\ \A j \in 1..Len(toks) :
          find(line, toks[j][1], 1) # 0 =>
            find(line, toks[k][1], 1) <= find(line, toks[j][1], 1)}

\* C23: multi-line comment state of search_in_files (Appsec_Repo_Search.py),
\* ignore_comments on.  A line whose first start token S is not closed on
\* the line opens a block: the text before S is searched, and the state
\* holds the end token paired with S.  Inside a block a line without that
\* end token is skipped and changes nothing, whatever other end tokens it
\* holds; a line with it closes the block and the text after the end token
\* is searched like a line outside a block.  Every file starts outside a
\* block.
C23_MultiLineState ==
  [][(sq_app = "Appsec" /\ sq_args.ignore_comments) =>
       /\ (sq_pc' = "line" /\ sq_idx' = 0) => (~sq_inside' /\ sq_end' = << >>)
       /\ sq_idx' = sq_idx + 1 =>
            LET original_line == rstrip_nl(sq_lines[sq_idx + 1])
                toks == MULTI_COMMENT_TOKENS(sq_ext)
                key == norm(sq_args.keyword, sq_args.case_sensitive)
                end_idx == find(original_line, sq_end, 1)
                rest == SubSeq(original_line, end_idx + Len(sq_end), Len(original_line))
            IN  /\ (sq_inside /\ end_idx = 0) =>
                     (~SeqMatched /\ sq_inside' /\ sq_end' = sq_end)
                /\ (sq_inside /\ end_idx # 0) =>
                     (SeqMatched <=> SeqWouldMatch(rest))
                /\ \A k \in EarliestStart(original_line, toks) :
                     LET at == find(original_line, toks[k][1], 1)
                         before == SubSeq(original_line, 1, at - 1)
                     IN  (/\ ~sq_inside
                          /\ find(original_line, toks[k][2], at + Len(toks[k][1])) = 0
                          /\ first_unquoted_marker_index(before, SINGLE_LINE_MARKERS(sq_ext)) = 0)
                         => /\ sq_inside'
                            /\ sq_end' = toks[k][2]
                            /\ SeqMatched <=>
                                 Contains(norm(before, sq_args.case_sensitive), key)]_vars

\* The second file of the list is a .py file whose block was opened on line
\* 1, not closed by the other pair's end token on line 2 and closed on line
\* 3, whose rest matched; the first file had left a block open.
C23_Witness ==
  /\ sq_app = "Appsec" /\ sq_args.ignore_comments
  /\ sq_file = 2 /\ sq_ext = ".py" /\ sq_idx = 3 /\ ~sq_inside
  /\ Len(sq_files[1].lines) = 2
  /\ sq_results = << <<1, 1, rstrip_nl(sq_files[1].lines[1])>>,
                     <<2, 3, rstrip_nl(sq_lines[3])>> >>

\* C24: with ignore_comments on, a multi-line start token inside a single-
\* or double-quoted string is no comment start: on a line all of whose
\* start tokens (and single-line markers) stand inside quotes the text
\* after them is searched, and the following lines are not inside a block.
C24_QuotedStartToken ==
  [][(/\ sq_idx' = sq_idx + 1
      /\ sq_args.ignore_comments /\ ~sq_inside /\ sq_ext = ".java"
      /\ ~sq_args.per_token /\ ~sq_args.exact_match) =>
       LET original_line == rstrip_nl(sq_lines[sq_idx + 1])
           toks == MULTI_COMMENT_TOKENS(sq_ext)
           key == norm(sq_args.keyword, sq_args.case_sensitive)
           starts == {toks[k][1] : k \in 1..Len(toks)}
           quoted ==
             /\ \E t \in starts : find(original_line, t, 1) # 0
             /\ first_unquoted_marker_index(
                  original_line, starts \cup SINGLE_LINE_MARKERS(sq_ext)) = 0
       IN  quoted =>
             /\ ~sq_inside'
             /\ SeqMatched <=>
                  Contains(norm(original_line, sq_args.case_sensitive), key)]_vars

\* C25: a file whose extension has no configured comment syntax (.txt)
\* yields the same match records with comment-ignore on as with it off.
\* worker_search_file never looks at the file name, so every enumerated
\* file stands for a .txt file as well.
C25_NoSyntaxPassThrough ==
  (wf_idx = Len(wf_lines) /\ wf_args.ignorecomments = "Yes") =>
    wf_results = FileRecords(1, wf_lines, Len(wf_lines),
                             [wf_args EXCEPT !.ignorecomments = "No"])

\* The entries of a walk whose file name, lower-cased, ends with suffix.
Ending(entries, suffix) ==
  SelectSeq(entries, LAMBDA e : endswith(norm(e[2], FALSE), norm(suffix, FALSE)))

RECURSIVE Filtered(_, _)
\* The entries whose lower-cased file name ends with one of the lower-cased
\* suffixes, in walk order.
Filtered(entries, suffixes) ==
  IF entries = << >> THEN << >>
  ELSE (IF \E k \in 1..Len(suffixes) : Ending(<<Head(entries)>>, suffixes[k]) # << >>
        THEN <<Head(entries)>> ELSE << >>)
       \o Filtered(Tail(entries), suffixes)

\* C26: iter_files yields exactly the files under the root whose lower-cased
\* name ends with one of the lower-cased suffixes, and every file when the
\* filter is empty or holds 'All'; an empty or missing root yields nothing,
\* and search_in_files_parallel then returns total = 0, scanned = 0 and no
\* results.
C26_IterFiles ==
  /\ it_pc # "walk" =>
       /\ (it_exts = << >> \/ \E k \in 1..Len(it_exts) : it_exts[k] = All)
            => filelist = it_root.entries
       /\ (it_exts # << >> /\ \A k \in 1..Len(it_exts) : it_exts[k] # All)
            => filelist = Filtered(it_root.entries, it_exts)
  /\ (it_pc \in {"pool", "returned"} /\ (~it_root.exists \/ it_root.entries = << >>)) =>
       /\ it_pc = "returned"
       /\ it_ret = << [results |-> << >>, scanned |-> 0, total |-> 0,
                       files_with_match |-> 0] >>

\* A walk over an upper-case and a lower-case name kept by a mixed-case
\* filter and a name dropped by it.
C26_Witness ==
  /\ it_pc = "pool"
  /\ it_exts = << <<".","F","O">> >>
  /\ Len(it_root.entries) = 2
  /\ filelist = << << <<"s","u","b">>, <<"B",".","F","O">> >> >>

\* C27: each VarProxy is a timer-gated single-slot buffer: at most one
\* flush callback is scheduled at a time, and two consecutive writes to the
\* underlying variable are at least the interval apart.
C27_TimerGated ==
  /\ Len(vp_timers) <= 1
  /\ \A k \in 1..(Len(vp_writes) - 1) :
       vp_writes[k + 1][1] - vp_writes[k][1] >= interval

RECURSIVE IsSubseq(_, _)
\* a can be got from b by leaving elements out.
IsSubseq(a, b) ==
  IF a = << >> THEN TRUE
  ELSE IF b = << >> THEN FALSE
  ELSE IF Head(a) = Head(b) THEN IsSubseq(Tail(a), Tail(b))
  ELSE IsSubseq(a, Tail(b))

\* No call of set() or flush() is under way and no callback is scheduled.
Quiescent ==
  vp_setpc = "idle" /\ vp_flushpc = "idle" /\ vp_timers = << >>

\* C28: once the calls of set() have stopped and every scheduled callback
\* has run, the underlying variable holds the value of the last set(); the
\* values written follow the order in which they were set.
C28_LatestValueWins ==
  /\ (Quiescent /\ vp_sets # << >>) =>
       (vp_var = vp_sets[Len(vp_sets)] /\ vp_pending = None)
  /\ IsSubseq([k \in 1..Len(vp_writes) |-> vp_writes[k][2]], vp_sets)

\* 13.py: three calls of set(), the second and third with different values,
\* two writes, everything flushed.
C28_Witness ==
  /\ vp_app = "13"
  /\ Quiescent
  /\ Len(vp_sets) >= 3
  /\ vp_sets[2] # vp_sets[3]
  /\ Len(vp_writes) = 2

\* C29: every progress report of search_in_files_parallel, the forced final
\* one included, passes the fraction scanned/total (0 when total is 0), also
\* when the scan ended by cancellation or by the safeguard with
\* scanned < total.
C29_ProgressConsistent ==
  [][\A s \in Scans :
       (progress'[s] # progress[s] /\ progress'[s] # NoReport) =>
         IF total(s) = 0 THEN progress'[s][1] = 0
         ELSE progress'[s][1] * total(s) = scanned'[s] * progress'[s][2]]_vars


\* The file paths occurring in a list of records.
ResultFiles(sq) == {sq[i][1] : i \in 1..Len(sq)}

C30_State ==
  /\ \A s \in Scans : Running(s) =>
       /\ files_with_match[s] = Cardinality(ResultFiles(results[s]))
       /\ ResultFiles(results[s]) \subseteq collected[s]
       /\ Cardinality(ResultFiles(results[s])) <= scanned[s]
  /\ \A i \in 1..Len(history) :
       /\ history[i].fileswithmatch =
            Cardinality({r[1] : r \in history[i].records})
       /\ history[i].fileswithmatch <= history[i].filesscanned

C30_Step ==
  \A s \in Scans, f \in Files :
    (InSearch(s) /\ RecordsOf(results'[s], f) # RecordsOf(results[s], f)) =>
      /\ f \notin collected[s] /\ f \in collected'[s]
      /\ scanned'[s] = scanned[s] + 1
      /\ files_with_match'[s] = files_with_match[s] + 1

\* C30: at every moment of a scan by search_in_files_parallel and in the
\* values it returns, cancelled or not, files_with_match is the number of
\* distinct file paths in results, and every file whose records are in
\* results was counted in scanned by the step that appended them.
C30_CountersAgree == [](C30_State) /\ [][C30_Step]_vars

\* A cancelled scan returned the two records of one file, counted once,
\* after skipping the finished future of another file that held matches.
C30_Witness ==
  \E s \in Scans, f \in Files :
    /\ pc[s] = "returned" /\ stopevent
    /\ Len(results[s]) = 2 /\ files_with_match[s] = 1 /\ scanned[s] = 1
    /\ f \in collected[s] /\ wres[s][f] # << >>
    /\ RecordsOf(results[s], f) = {}

====
